---------------------------- MODULE Spec2Model ----------------------------
(***************************************************************************)
(* A model of the query-safety pipeline of the Azure OpenAI / PostgreSQL   *)
(* chat application: the SQL gate of utils.py (classifier, deny-list,      *)
(* limit enforcer), the input validators, and the chat handler of app.py   *)
(* with the callers of DatabaseManager.execute_query.                      *)
(*                                                                         *)
(* Text is modelled as a sequence of atoms.  An atom is an indivisible     *)
(* piece of text, a record [k, w, c]:                                      *)
(*   k = "word"   a run of letters; w is its upper-case spelling and c its *)
(*                letter case: "U" upper, "L" lower, "M" mixed             *)
(*   k = "digits" a run of decimal digits, w its spelling                  *)
(*   k = "us"     the underscore                                           *)
(*   k = "sp", "tab", "nl"   one space, tab, newline                       *)
(*   k = "semi", "colon", "eq", "lt", "gt", "slash", "quote", "hash",      *)
(*       "dash2" (the two characters --)                                   *)
(*   k = "cmt1"   a single-line comment  -- c  with its closing newline    *)
(*   k = "cmtm"   a multi-line comment   /* c */                           *)
(* Regular expressions of the source are evaluated over atoms: a word      *)
(* boundary lies between a word character atom (word, digits, us) and any  *)
(* other atom or an end of the text.                                       *)
(***************************************************************************)
EXTENDS Integers, Sequences, FiniteSets, TLC

A(k, w, c) == [k |-> k, w |-> w, c |-> c]

Wd(w) == A("word", w, "U")
Lw(w) == A("word", w, "L")
Mw(w) == A("word", w, "M")
Dg(w) == A("digits", w, "-")
SP    == A("sp", " ", "-")
TAB   == A("tab", "\t", "-")
NL    == A("nl", "\n", "-")
SEMI  == A("semi", ";", "-")
US    == A("us", "_", "-")
COLON == A("colon", ":", "-")
EQ    == A("eq", "=", "-")
LT    == A("lt", "<", "-")
GT    == A("gt", ">", "-")
SLASH == A("slash", "/", "-")
QUOTE == A("quote", "'", "-")
HASH  == A("hash", "#", "-")
DASH2 == A("dash2", "--", "-")
CMT1  == A("cmt1", "-- c\n", "-")
CMTM  == A("cmtm", "/* c */", "-")

\* An optional text: Python's None is NoText.
NoText == [ok |-> FALSE, text |-> <<>>]
Some(t) == [ok |-> TRUE, text |-> t]

\* \w of Python's re: letters, digits and the underscore.
IsWordChar(a) == a.k \in {"word", "digits", "us"}
\* \s of Python's re, and what str.strip() removes.
IsSpace(a) == a.k \in {"sp", "tab", "nl"}

\* \b before position i / after position i of text t (i is a word character).
BoundaryBefore(t, i) == i = 1 \/ ~IsWordChar(t[i - 1])
BoundaryAfter(t, i) == i = Len(t) \/ ~IsWordChar(t[i + 1])

\* All concatenations of at most n segments of the library lib.
RECURSIVE Texts(_, _)
Texts(lib, n) ==
  IF n = 0 THEN {<<>>}
  ELSE LET prev == Texts(lib, n - 1) IN prev \cup {t \o s : t \in prev, s \in lib}

(***************************************************************************)
(* str.strip(), str.rstrip(';'), str.strip(';')                            *)
(***************************************************************************)
RECURSIVE LStripSpace(_)
LStripSpace(t) == IF t # <<>> /\ IsSpace(Head(t)) THEN LStripSpace(Tail(t)) ELSE t

RECURSIVE RStripSpace(_)
RStripSpace(t) ==
  IF t # <<>> /\ IsSpace(t[Len(t)]) THEN RStripSpace(SubSeq(t, 1, Len(t) - 1)) ELSE t

RECURSIVE LStripSemi(_)
LStripSemi(t) == IF t # <<>> /\ Head(t).k = "semi" THEN LStripSemi(Tail(t)) ELSE t

RECURSIVE RStripSemi(_)
RStripSemi(t) ==
  IF t # <<>> /\ t[Len(t)].k = "semi" THEN RStripSemi(SubSeq(t, 1, Len(t) - 1)) ELSE t

\* str.strip(): a comment atom is never at an end of a text that is stripped
\* (the texts stripped are LLM responses without comments and formatted SQL,
\* whose comments are removed), so its closing newline is never cut.
Strip(t) == LStripSpace(RStripSpace(t))
StripSemi(t) == LStripSemi(RStripSemi(t))

(***************************************************************************)
(* sqlparse, as utils.py uses it.  The lexer makes one token of every      *)
(* maximal run of word characters and one token of every other atom; the   *)
(* token types are sqlparse's (Newline is Text.Whitespace.Newline, a       *)
(* subtype of Whitespace and not equal to it).                             *)
(***************************************************************************)
\* The words of the libraries that sqlparse's lexer types as keywords.
SqlKeywords ==
  {"SELECT", "FROM", "WHERE", "AS", "INTO", "ON", "LIMIT", "ORDER", "BY",
   "INSERT", "UPDATE", "DELETE", "DROP", "CREATE", "ALTER", "TRUNCATE",
   "EXEC", "EXECUTE", "CALL", "MERGE", "GRANT", "REVOKE", "COMMIT",
   "ROLLBACK", "SAVEPOINT", "LOCK", "UNLOCK", "SET", "RESET", "SHOW",
   "DESCRIBE", "EXPLAIN", "ANALYZE", "VALUES", "CONFLICT", "DO"}

RECURSIVE WordRunLen(_)
WordRunLen(t) ==
  IF t # <<>> /\ IsWordChar(Head(t)) THEN 1 + WordRunLen(Tail(t)) ELSE 0

RunType(r) ==
  IF Len(r) = 1 /\ r[1].k = "word" /\ r[1].w \in SqlKeywords THEN "Keyword"
  ELSE IF \A i \in 1..Len(r) : r[i].k = "digits" THEN "Number"
  ELSE "Name"

AtomType(a) ==
  CASE a.k \in {"sp", "tab"} -> "Whitespace"
    [] a.k = "nl" -> "Newline"
    [] a.k = "cmt1" -> "Comment.Single"
    [] a.k = "cmtm" -> "Comment.Multiline"
    [] a.k = "semi" -> "Punctuation"
    [] OTHER -> "Other"

RECURSIVE Lex(_)
Lex(t) ==
  IF t = <<>> THEN <<>>
  ELSE IF IsWordChar(Head(t))
    THEN LET n == WordRunLen(t)
             r == SubSeq(t, 1, n)
         IN <<[tt |-> RunType(r), val |-> r]>> \o Lex(SubSeq(t, n + 1, Len(t)))
    ELSE <<[tt |-> AtomType(Head(t)), val |-> <<Head(t)>>]>> \o Lex(Tail(t))

\* Token.is_whitespace: ttype in T.Whitespace, which holds of Newline too.
IsWhitespaceToken(tok) == tok.tt \in {"Whitespace", "Newline"}

\* sqlparse's StatementSplitter at split level 0: a statement ends with its ;
\* and takes the Whitespace and Comment.Single tokens that follow (a Newline
\* opens the next statement); a last statement of whitespace only is dropped.
RECURSIVE SplitFrom(_, _, _)
SplitFrom(toks, cur, consume) ==
  IF toks = <<>>
  THEN IF cur # <<>> /\ ~(\A i \in 1..Len(cur) : IsWhitespaceToken(cur[i]))
       THEN <<cur>> ELSE <<>>
  ELSE LET tok == Head(toks)
           cut == consume /\ tok.tt \notin {"Whitespace", "Comment.Single"}
           base == IF cut THEN <<>> ELSE cur
           ends == tok.tt = "Punctuation"
       IN (IF cut THEN <<cur>> ELSE <<>>)
          \o SplitFrom(Tail(toks), Append(base, tok), ends \/ (consume /\ ~cut))

\* sqlparse.parse(text): the statements of the text, each a token sequence.
Parse(t) == SplitFrom(Lex(t), <<>>, FALSE)

\* str.upper() of a token value.
UpperAtom(a) == IF a.k = "word" THEN [a EXCEPT !.c = "U"] ELSE a
LowerAtom(a) == IF a.k = "word" THEN [a EXCEPT !.c = "L"] ELSE a
Upper(t) == [i \in 1..Len(t) |-> UpperAtom(t[i])]
Lower(t) == [i \in 1..Len(t) |-> LowerAtom(t[i])]

(***************************************************************************)
(* utils._is_select_statement                                              *)
(***************************************************************************)
\* The token types the loop of _is_select_statement skips: membership in a
\* tuple of token types is by equality, so Newline is not among them.
SkippedTypes == {"Whitespace", "Comment.Single", "Comment.Multiline"}

RECURSIVE FirstToken(_, _)
FirstToken(stmt, skipped) ==
  IF stmt = <<>> THEN <<>>
  ELSE IF Head(stmt).tt \in skipped THEN FirstToken(Tail(stmt), skipped)
  ELSE <<Head(stmt)>>

_is_select_statement(stmt) ==
  LET first == FirstToken(stmt, SkippedTypes)
  IN first # <<>> /\ Upper(first[1].val) = <<Wd("SELECT")>>

(***************************************************************************)
(* utils._contains_dangerous_keywords                                      *)
(***************************************************************************)
dangerous_keywords ==
  {"INSERT", "UPDATE", "DELETE", "DROP", "CREATE", "ALTER", "TRUNCATE", "EXEC",
   "EXECUTE", "CALL", "MERGE", "GRANT", "REVOKE", "COMMIT", "ROLLBACK",
   "SAVEPOINT", "LOCK", "UNLOCK", "SET", "RESET", "SHOW", "DESCRIBE", "EXPLAIN",
   "ANALYZE"}

\* A faulty variant: the search without \b, a substring match.
KeywordMatchSubstring(t, kw) ==
  \E i \in 1..Len(t) : t[i].k = "word" /\ t[i].w = kw

\* re.search(r'\bKEYWORD\b', text, re.IGNORECASE) for one keyword: a word atom
\* spells a whole keyword (no keyword is split over two atoms).
KeywordMatch(t, kw) ==
  \E i \in 1..Len(t) :
    /\ t[i].k = "word" /\ t[i].w = kw
    /\ BoundaryBefore(t, i) /\ BoundaryAfter(t, i)

\* A faulty variant: the search without re.IGNORECASE.
ContainsDangerousKeywordsCaseSensitive(t) ==
  \E kw \in dangerous_keywords :
    \E i \in 1..Len(t) :
      /\ t[i].k = "word" /\ t[i].w = kw /\ t[i].c = "U"
      /\ BoundaryBefore(t, i) /\ BoundaryAfter(t, i)

_contains_dangerous_keywords(t) == \E kw \in dangerous_keywords : KeywordMatch(t, kw)

(***************************************************************************)
(* utils._ensure_limit_clause                                              *)
(***************************************************************************)
\* The row cap the enforcer appends.
DefaultLimit == 100

\* The value and the number of digits of a digits atom.
DigitsValue(w) ==
  CASE w = "0" -> 0 [] w = "1" -> 1 [] w = "5" -> 5 [] w = "100" -> DefaultLimit
    [] w = "101" -> DefaultLimit + 1 [] w = "500" -> 5 * DefaultLimit
DigitsLen(w) == IF w \in {"0", "1", "5"} THEN 1 ELSE 3

RECURSIVE Pow10(_)
Pow10(n) == IF n = 0 THEN 1 ELSE 10 * Pow10(n - 1)

\* The number a run of digits atoms spells.
RECURSIVE NumberOf(_)
NumberOf(r) ==
  IF r = <<>> THEN 0
  ELSE LET last == r[Len(r)]
       IN NumberOf(SubSeq(r, 1, Len(r) - 1)) * Pow10(DigitsLen(last.w))
          + DigitsValue(last.w)

\* A match of r'\bLIMIT\s+\d+' (re.IGNORECASE) with LIMIT at i and the first
\* digit at j.
LimitMatchAt(t, i, j) ==
  /\ t[i].k = "word" /\ t[i].w = "LIMIT" /\ BoundaryBefore(t, i)
  /\ j > i + 1
  /\ \A k \in (i + 1)..(j - 1) : IsSpace(t[k])
  /\ t[j].k = "digits"

HasLimitClause(t) == \E i \in 1..Len(t) : \E j \in 1..Len(t) : LimitMatchAt(t, i, j)

LimitSuffix == <<SP, Wd("LIMIT"), SP, Dg("100")>>

\* Faulty variants: the search without re.IGNORECASE; no search at all; the
\* clause appended without its leading space.
EnsureLimitCaseSensitive(t) ==
  IF \E i \in 1..Len(t) : \E j \in 1..Len(t) : LimitMatchAt(t, i, j) /\ t[i].c = "U"
  THEN t ELSE RStripSemi(t) \o LimitSuffix

EnsureLimitAlwaysAppend(t) == RStripSemi(t) \o LimitSuffix

EnsureLimitNoSpace(t) ==
  IF HasLimitClause(t) THEN t ELSE RStripSemi(t) \o Tail(LimitSuffix)

_ensure_limit_clause(t) ==
  IF HasLimitClause(t) THEN t ELSE RStripSemi(t) \o LimitSuffix

(***************************************************************************)
(* sqlparse.format(text, reindent=True, keyword_case='upper',              *)
(*                 identifier_case='lower', strip_comments=True)           *)
(***************************************************************************)
\* The keywords before which the reindent filter breaks the line.
SplitWords == {"FROM", "WHERE", "LIMIT", "VALUES", "SET"}

IsCommentToken(tok) == tok.tt \in {"Comment.Single", "Comment.Multiline"}

\* keyword_case and identifier_case; a comment becomes one space.
CaseToken(tok) ==
  CASE tok.tt = "Keyword" -> Upper(tok.val)
    [] tok.tt = "Name" -> Lower(tok.val)
    [] IsCommentToken(tok) \/ IsWhitespaceToken(tok) -> <<SP>>
    [] OTHER -> tok.val

RECURSIVE Concat(_)
Concat(ss) == IF ss = <<>> THEN <<>> ELSE Head(ss) \o Concat(Tail(ss))

\* StripWhitespaceFilter: a run of whitespace becomes one space, and the
\* whitespace at both ends of the statement goes.
RECURSIVE Collapse(_)
Collapse(t) ==
  IF Len(t) < 2 THEN t
  ELSE IF IsSpace(t[1]) /\ IsSpace(t[2]) THEN Collapse(Tail(t))
  ELSE <<Head(t)>> \o Collapse(Tail(t))

\* ReindentFilter at nesting level 0: a line break replaces the space before
\* a split keyword and before a SELECT that is not first in its statement,
\* and is inserted where there was no space.
BreaksLine(t, i) ==
  /\ t[i].k = "word" /\ BoundaryBefore(t, i) /\ BoundaryAfter(t, i)
  /\ \/ t[i].w \in SplitWords
     \/ t[i].w = "SELECT" /\ i > 1

RECURSIVE Reindent(_, _)
Reindent(t, i) ==
  IF i > Len(t) THEN <<>>
  ELSE IF i < Len(t) /\ IsSpace(t[i]) /\ BreaksLine(t, i + 1)
    THEN <<NL, t[i + 1]>> \o Reindent(t, i + 2)
  ELSE IF BreaksLine(t, i) THEN <<NL, t[i]>> \o Reindent(t, i + 1)
  ELSE <<t[i]>> \o Reindent(t, i + 1)

FormatStatement(stmt) ==
  Reindent(Strip(Collapse(Concat([i \in 1..Len(stmt) |-> CaseToken(stmt[i])]))), 1)

RECURSIVE JoinStatements(_)
JoinStatements(ss) ==
  IF ss = <<>> THEN <<>>
  ELSE IF Len(ss) = 1 THEN ss[1]
  ELSE ss[1] \o <<NL, NL>> \o JoinStatements(Tail(ss))

Format(t) ==
  LET stmts == Parse(t)
  IN JoinStatements([i \in 1..Len(stmts) |-> FormatStatement(stmts[i])])

(***************************************************************************)
(* utils.sanitize_sql                                                      *)
(***************************************************************************)
sanitize_sql(t) ==
  IF t = <<>> THEN NoText
  ELSE LET parsed == Parse(t)
       IN IF parsed = <<>> THEN NoText
          ELSE IF ~_is_select_statement(parsed[1]) THEN NoText
          ELSE IF _contains_dangerous_keywords(t) THEN NoText
          ELSE Some(Strip(_ensure_limit_clause(Format(t))))

(***************************************************************************)
(* Regular expressions of the input validators, over atoms.                *)
(***************************************************************************)
\* The maximum length of a chat message and the default max_length.
MaxInputLength == 1000

\* The number of characters of a word: PAD is a run of MaxInputLength
\* letters, the other words are spelled out.
WordLen(w) ==
  CASE w = "X" -> 1
    [] w = "PAD" -> MaxInputLength
    [] w \in {"OR", "ON", "AS", "BY", "DO"} -> 2
    [] w \in {"AND", "SET"} -> 3
    [] w \in {"DROP", "FROM", "INTO", "EXEC", "CALL", "LOCK", "SHOW"} -> 4
    [] w \in {"UNION", "LIMIT", "WHERE", "ALTER", "MERGE", "GRANT", "RESET",
              "ORDER"} -> 5
    [] w \in {"SELECT", "SCRIPT", "ONLOAD", "IFRAME", "OBJECT", "INSERT", "UPDATE",
              "DELETE", "CREATE", "REVOKE", "COMMIT", "UNLOCK", "VALUES"} -> 6
    [] w \in {"EXECUTE", "EXPLAIN", "ANALYZE"} -> 7
    [] w \in {"VBSCRIPT", "TRUNCATE", "ROLLBACK", "DESCRIBE", "CONFLICT"} -> 8
    [] w = "SAVEPOINT" -> 9
    [] w = "JAVASCRIPT" -> 10
    [] OTHER -> 5

AtomLen(a) ==
  CASE a.k = "word" -> WordLen(a.w)
    [] a.k = "digits" -> DigitsLen(a.w)
    [] a.k = "dash2" -> 2
    [] a.k = "cmt1" -> 5
    [] a.k = "cmtm" -> 7
    [] OTHER -> 1

\* len(text)
RECURSIVE TextLen(_)
TextLen(t) == IF t = <<>> THEN 0 ELSE AtomLen(Head(t)) + TextLen(Tail(t))

\* The position of the first atom at or after i that \s* does not take.
RECURSIVE SkipSpaces(_, _)
SkipSpaces(t, i) == IF i <= Len(t) /\ IsSpace(t[i]) THEN SkipSpaces(t, i + 1) ELSE i

IsWordAt(t, i, w) == i >= 1 /\ i <= Len(t) /\ t[i].k = "word" /\ t[i].w = w
IsKindAt(t, i, k) == i >= 1 /\ i <= Len(t) /\ t[i].k = k

\* The atoms a dot of a pattern does not match: those holding a newline.
HasNewline(a) == a.k \in {"nl", "cmt1"}

\* The end of the run of word characters that holds position i.
RECURSIVE RunEnd(_, _)
RunEnd(t, i) == IF i < Len(t) /\ IsWordChar(t[i + 1]) THEN RunEnd(t, i + 1) ELSE i

\* Where the letters "on" lie in a word: followed by more letters of the
\* word ("mid"), as its last letters ("end"), or nowhere.
OnKind(w) ==
  CASE w \in {"ONLOAD", "CONFLICT"} -> "mid"
    [] w \in {"ON", "UNION"} -> "end"
    [] OTHER -> "none"

\* r'on\w+\s*=' : "on", at least one more word character, spaces, "=".
EventHandlerMatch(t) ==
  \E i \in 1..Len(t) :
    /\ t[i].k = "word"
    /\ \/ OnKind(t[i].w) = "mid"
       \/ OnKind(t[i].w) = "end" /\ i < Len(t) /\ IsWordChar(t[i + 1])
    /\ IsKindAt(t, SkipSpaces(t, RunEnd(t, i) + 1), "eq")

\* r'<script[^>]*>.*?</script>' when lax is FALSE, and
\* r'<\s*script[^>]*>.*?<\s*/\s*script\s*>' when lax is TRUE.
ScriptTagMatch(t, lax) ==
  LET Nx(i) == IF lax THEN SkipSpaces(t, i) ELSE i
  IN \E i \in 1..Len(t) : \E g \in 1..Len(t) : \E c \in 1..Len(t) :
       /\ t[i].k = "lt" /\ IsWordAt(t, Nx(i + 1), "SCRIPT")
       /\ g > Nx(i + 1) /\ t[g].k = "gt"
       /\ \A k \in (Nx(i + 1) + 1)..(g - 1) : t[k].k # "gt"
       /\ c > g /\ t[c].k = "lt"
       /\ \A k \in (g + 1)..(c - 1) : ~HasNewline(t[k])
       /\ IsKindAt(t, Nx(c + 1), "slash")
       /\ IsWordAt(t, Nx(Nx(c + 1) + 1), "SCRIPT")
       /\ IsKindAt(t, Nx(Nx(Nx(c + 1) + 1) + 1), "gt")

\* r'javascript:' (lax FALSE), r'javascript\s*:' (lax TRUE), and vbscript.
SchemeMatch(t, w, lax) ==
  \E i \in 1..Len(t) :
    /\ IsWordAt(t, i, w)
    /\ IsKindAt(t, IF lax THEN SkipSpaces(t, i + 1) ELSE i + 1, "colon")

\* r'<\s*iframe[^>]*>' and the same for object and embed.
OpenTagMatch(t, w) ==
  \E i \in 1..Len(t) : \E g \in 1..Len(t) :
    /\ t[i].k = "lt" /\ IsWordAt(t, SkipSpaces(t, i + 1), w)
    /\ g > SkipSpaces(t, i + 1) /\ t[g].k = "gt"

(***************************************************************************)
(* utils.validate_input                                                    *)
(***************************************************************************)
validate_input(user_input) ==
  IF user_input = <<>> THEN FALSE
  ELSE LET cleaned_input == Strip(user_input)
       IN IF TextLen(cleaned_input) = 0 \/ TextLen(cleaned_input) > MaxInputLength
          THEN FALSE
          ELSE ~ \/ ScriptTagMatch(cleaned_input, FALSE)
                 \/ SchemeMatch(cleaned_input, "JAVASCRIPT", FALSE)
                 \/ SchemeMatch(cleaned_input, "VBSCRIPT", FALSE)
                 \/ EventHandlerMatch(cleaned_input)

(***************************************************************************)
(* SecurityManager.validate_input                                          *)
(***************************************************************************)
sql_injection_words ==
  {"UNION", "SELECT", "INSERT", "UPDATE", "DELETE", "DROP", "CREATE", "ALTER",
   "EXEC", "EXECUTE"}

\* r'\b(?:or|and)\s+\d+\s*=\s*\d+'
TautologyMatch(t) ==
  \E i \in 1..Len(t) :
    /\ t[i].k = "word" /\ t[i].w \in {"OR", "AND"} /\ BoundaryBefore(t, i)
    /\ SkipSpaces(t, i + 1) > i + 1
    /\ LET d == SkipSpaces(t, i + 1)
       IN /\ IsKindAt(t, d, "digits")
          /\ \E e \in d..Len(t) :
               /\ \A k \in d..e : t[k].k = "digits"
               /\ IsKindAt(t, SkipSpaces(t, e + 1), "eq")
               /\ IsKindAt(t, SkipSpaces(t, SkipSpaces(t, e + 1) + 1), "digits")

\* r'\b(?:or|and)\s+[\'"].*[\'"]'
QuotedMatch(t) ==
  \E i \in 1..Len(t) : \E q \in 1..Len(t) :
    /\ t[i].k = "word" /\ t[i].w \in {"OR", "AND"} /\ BoundaryBefore(t, i)
    /\ SkipSpaces(t, i + 1) > i + 1
    /\ IsKindAt(t, SkipSpaces(t, i + 1), "quote")
    /\ q > SkipSpaces(t, i + 1) /\ t[q].k = "quote"
    /\ \A k \in (SkipSpaces(t, i + 1) + 1)..(q - 1) : ~HasNewline(t[k])

SqlInjectionMatch(t) ==
  \/ \E i \in 1..Len(t) :
       /\ t[i].k = "word" /\ t[i].w \in sql_injection_words
       /\ BoundaryBefore(t, i) /\ BoundaryAfter(t, i)
  \/ \E i \in 1..Len(t) : t[i].k \in {"dash2", "hash", "cmt1", "cmtm"}
  \/ TautologyMatch(t)
  \/ QuotedMatch(t)
  \/ \E i \in 1..Len(t) : t[i].k = "semi"

XssMatch(t) ==
  \/ ScriptTagMatch(t, TRUE)
  \/ SchemeMatch(t, "JAVASCRIPT", TRUE)
  \/ EventHandlerMatch(t)
  \/ OpenTagMatch(t, "IFRAME")
  \/ OpenTagMatch(t, "OBJECT")
  \/ OpenTagMatch(t, "EMBED")

\* re.sub(r'[<>"\']', '', text)
RECURSIVE RemoveMarkup(_)
RemoveMarkup(t) ==
  IF t = <<>> THEN <<>>
  ELSE IF Head(t).k \in {"lt", "gt", "quote"} THEN RemoveMarkup(Tail(t))
  ELSE <<Head(t)>> \o RemoveMarkup(Tail(t))

\* A faulty variant: the accepted input is trimmed but keeps its markup.
SecurityValidateKeepMarkup(input_text, max_length) ==
  IF TextLen(input_text) > max_length
  THEN [valid |-> FALSE, sanitized |-> Strip(input_text), warnings |-> <<"length">>]
  ELSE LET w1 == IF SqlInjectionMatch(input_text) THEN <<"sql_injection">> ELSE <<>>
           w2 == IF XssMatch(input_text) THEN <<"xss">> ELSE <<>>
       IN [valid |-> w1 \o w2 = <<>>, sanitized |-> Strip(input_text),
           warnings |-> w1 \o w2]

security_validate_input(input_text, max_length) ==
  IF TextLen(input_text) > max_length
  THEN [valid |-> FALSE, sanitized |-> Strip(input_text), warnings |-> <<"length">>]
  ELSE LET w1 == IF SqlInjectionMatch(input_text) THEN <<"sql_injection">> ELSE <<>>
           w2 == IF XssMatch(input_text) THEN <<"xss">> ELSE <<>>
           valid == w1 \o w2 = <<>>
       IN [valid |-> valid,
           sanitized |-> IF valid THEN RemoveMarkup(Strip(input_text))
                         ELSE Strip(input_text),
           warnings |-> w1 \o w2]

(***************************************************************************)
(* The statement classifier of the gate: sanitize_sql up to its first      *)
(* decision (the empty text, the empty parse, the first statement's kind). *)
(***************************************************************************)
Classify(t) ==
  IF t = <<>> THEN "UNPARSEABLE"
  ELSE LET parsed == Parse(t)
       IN IF parsed = <<>> THEN "UNPARSEABLE"
          ELSE IF _is_select_statement(parsed[1]) THEN "SELECT"
          ELSE "OTHER"

(***************************************************************************)
(* State.                                                                  *)
(*   fn, fnIn, fnOut, fnPrev, fnVerdict, fnApplied: one call of a function *)
(*   of the gate on the text fnIn: its name, its result (a text or None),  *)
(*   the result of the call before, a classification, the number of calls. *)
(***************************************************************************)
VARIABLES fn, fnIn, fnOut, fnPrev, fnVerdict, fnApplied

fnVars == <<fn, fnIn, fnOut, fnPrev, fnVerdict, fnApplied>>

(***************************************************************************)
(* SecurityManager.validate_input applied to one input.                    *)
(*   scanIn    input_text                                                  *)
(*   scanOut   the dictionary it returned                                  *)
(*   scanDone  the call has returned                                       *)
(***************************************************************************)
VARIABLES scanIn, scanOut, scanDone

scanVars == <<scanIn, scanOut, scanDone>>

(***************************************************************************)
(* Session tokens of one SecurityManager.                                  *)
(*   tokNow      the clock, in hours                                       *)
(*   tokToken    the token at hand: payload, header algorithm, signature   *)
(*   tokIssued   the payloads generate_session_token has signed            *)
(*   tokResult   what validate_session_token did, and when                 *)
(***************************************************************************)
VARIABLES tokNow, tokToken, tokIssued, tokResult

tokVars == <<tokNow, tokToken, tokIssued, tokResult>>

(***************************************************************************)
(* The SecurityManager instances of one process and what they encrypt.     *)
(*   cryEnv    ENCRYPTION_KEY of the environment, or "unset"               *)
(*   cryKeys   encryption_key of each instance, in order of construction;  *)
(*             the first is the global security_manager                    *)
(*   cryBox    the ciphertexts made so far: by which instance, of what     *)
(*   cryLast   the last decrypt_data: which instance, which ciphertext,    *)
(*             what came out                                               *)
(***************************************************************************)
VARIABLES cryEnv, cryKeys, cryBox, cryLast

cryVars == <<cryEnv, cryKeys, cryBox, cryLast>>

(***************************************************************************)
(* SecurityManager.check_ip_whitelist applied to one address string.       *)
(*   ipIn    ip_address: how the string is written, and its four numbers   *)
(*   ipOut   "-" before the call, then "True", "False" or "raises"         *)
(***************************************************************************)
VARIABLES ipIn, ipOut

ipVars == <<ipIn, ipOut>>

(***************************************************************************)
(* The connection pool of DatabaseManager and the threads that call its    *)
(* methods.                                                                *)
(*   th        for each thread: where it is in the method it called, the   *)
(*             connection it holds (0: none), the statements it ran on it, *)
(*             whether getconn found the pool exhausted, whether the       *)
(*             server closed it, how often the thread gave it              *)
(*             back, and what the method returned                          *)
(*   poolIdle  the connections the pool keeps for reuse (_pool)            *)
(*   poolUsed  the connections checked out (_used)                         *)
(***************************************************************************)
VARIABLES th, poolIdle, poolUsed

poolVars == <<th, poolIdle, poolUsed>>

(***************************************************************************)
(* One call of DatabaseManager.get_schema_info.                            *)
(*   schPc     where the call stands                                       *)
(*   schRows   what the table query returned: None or the rows             *)
(*   schCols   what the column queries returned so far, in order           *)
(*   schIdx    the row the loop is at                                      *)
(*   schInfo   schema_info                                                 *)
(*   schCalls  the statements handed to execute_query, in order            *)
(***************************************************************************)
VARIABLES schPc, schRows, schCols, schIdx, schInfo, schCalls

schVars == <<schPc, schRows, schCols, schIdx, schInfo, schCalls>>

(***************************************************************************)
(* One call of OpenAIService._call_openai_with_retry.                      *)
(*   rtPc       the loop is running, or the call has returned              *)
(*   rtTokens   max_tokens, which tells the caller                         *)
(*   rtAttempt  attempt                                                    *)
(*   rtLog      what each call of the model did, in order                  *)
(*   rtSleeps   the calls of time.sleep: the attempt and the seconds       *)
(*   rtOut      the value returned                                         *)
(***************************************************************************)
VARIABLES rtPc, rtTokens, rtAttempt, rtLog, rtSleeps, rtOut

rtVars == <<rtPc, rtTokens, rtAttempt, rtLog, rtSleeps, rtOut>>

(***************************************************************************)
(* One request to a handler wrapped by validate_input_security.            *)
(*   gdBody  the request body                                              *)
(*   gdOut   whether the request has been answered, the status (200 when   *)
(*           the handler answered), whether the handler was invoked, the   *)
(*           warnings of the response, the security events logged          *)
(***************************************************************************)
VARIABLES gdBody, gdOut

gdVars == <<gdBody, gdOut>>

(***************************************************************************)
(* Requests to a handler wrapped by require_valid_session.                 *)
(*   ssEnv       whether JWT_SECRET_KEY is set in the environment          *)
(*   ssNow       the clock, in hours                                       *)
(*   ssToken     the token the global security_manager issued              *)
(*   ssRequests  the requests the guard has seen                           *)
(*   ssOut       the last request: its header, when it came, the status    *)
(*               (200 when the handler answered) and request.user_id       *)
(***************************************************************************)
VARIABLES ssEnv, ssNow, ssToken, ssRequests, ssOut

ssVars == <<ssEnv, ssNow, ssToken, ssRequests, ssOut>>

(***************************************************************************)
(* The cache of a DataFetcher that has a database manager.                 *)
(*   cNow    the clock, in quarters of an hour                             *)
(*   cTable  the committed rows of data_cache, by cache_key                *)
(*   cPut    the last call of _cache_data: key, data, time                 *)
(*   cGet    the last call of _get_cached_data: key, time, result          *)
(***************************************************************************)
VARIABLES cNow, cTable, cPut, cGet

cVars == <<cNow, cTable, cPut, cGet>>

(***************************************************************************)
(* One row of a result set turned into a dictionary by execute_query.      *)
(*   rmNames  column_names, from cursor.description                        *)
(*   rmRow    the row, a tuple of values                                   *)
(*   rmOut    whether the row has been converted, and the dictionary: its  *)
(*            items in order                                               *)
(***************************************************************************)
VARIABLES rmNames, rmRow, rmOut

rmVars == <<rmNames, rmRow, rmOut>>

earlyVars == <<scanVars, tokVars, cryVars, ipVars, poolVars>>
lateVars == <<schVars, rtVars, gdVars, ssVars, cVars, rmVars>>
exceptSch == <<earlyVars, rtVars, gdVars, ssVars, cVars, rmVars>>
exceptRt == <<earlyVars, schVars, gdVars, ssVars, cVars, rmVars>>
exceptGd == <<earlyVars, schVars, rtVars, ssVars, cVars, rmVars>>
exceptSs == <<earlyVars, schVars, rtVars, gdVars, cVars, rmVars>>
exceptC == <<earlyVars, schVars, rtVars, gdVars, ssVars, rmVars>>
exceptRm == <<earlyVars, schVars, rtVars, gdVars, ssVars, cVars>>

auxVars == <<earlyVars, lateVars>>

(***************************************************************************)
(* The statements the code itself hands to execute_query, abbreviated: the *)
(* whitespace they open with, their first keyword, an identifier for their *)
(* column and table lists, every keyword of the deny-list they hold, their *)
(* LIMIT clause and their closing ; are kept.                              *)
(***************************************************************************)
\* database.py:184  (opens with a newline, ends with ; and a newline)
table_query ==
  <<NL, SP, Wd("SELECT"), SP, Lw("X"), NL, SP, Wd("FROM"), SP, Lw("X"), SEMI, NL, SP>>
\* database.py:204
column_query ==
  <<NL, SP, Wd("SELECT"), SP, Lw("X"), NL, SP, Wd("FROM"), SP, Lw("X"), SEMI, NL, SP>>
\* database.py:280, 348, 365: no LIMIT clause
metrics_query ==
  <<NL, SP, Wd("SELECT"), SP, Lw("X"), NL, SP, Wd("FROM"), SP, Lw("X"), NL, SP>>
\* database.py:296, 331: LIMIT 5;  database.py:314: LIMIT 8
categories_query ==
  <<NL, SP, Wd("SELECT"), SP, Lw("X"), NL, SP, Wd("FROM"), SP, Lw("X"), NL, SP,
    Wd("LIMIT"), SP, Dg("5"), NL, SP>>
\* database.py:392
health_query == <<Wd("SELECT"), SP, Dg("1"), SP, Lw("AS"), SP, Lw("X")>>
\* data_fetcher.py:415
cache_select_query ==
  <<NL, SP, Wd("SELECT"), SP, Lw("X"), SP, Wd("FROM"), SP, Lw("X"), NL, SP>>
\* data_fetcher.py:447
cache_insert_query ==
  <<NL, SP, Wd("INSERT"), SP, Wd("INTO"), SP, Lw("X"), NL, SP, Wd("VALUES"), NL, SP,
    Wd("ON"), SP, Wd("CONFLICT"), SP, Wd("DO"), SP, Wd("UPDATE"), SP, Wd("SET"), NL, SP>>

(***************************************************************************)
(* State of the web application.                                           *)
(*   pc         where the request in progress stands                       *)
(*   message    the message of the chat request's body                     *)
(*   candidate  what natural_language_to_sql returned (a text or None)     *)
(*   sanitized  what sanitize_sql returned (a text or None)                *)
(*   calls      the calls the request has made, in order, to the schema    *)
(*              reader, the LLM translator and summarizer, and             *)
(*              execute_query (with the caller and the statement text)     *)
(*   rows       what execute_query returned to chat: None or a row count   *)
(*   status     the HTTP status of the response, 0 while there is none     *)
(*   row_count  the row_count of the response body, -1 when it has none    *)
(***************************************************************************)
VARIABLES pc, message, candidate, sanitized, calls, rows, status, row_count

appVars == <<pc, message, candidate, sanitized, calls, rows, status, row_count>>
vars == <<fn, fnIn, fnOut, fnPrev, fnVerdict, fnApplied,
          pc, message, candidate, sanitized, calls, rows, status, row_count, auxVars>>

\* Bounds: segments of a chat message and of an LLM response, rows of a
\* result set, tables of the schema.
MaxMessageSegs == 1
MaxResponseSegs == 2
MaxRows == 1
MaxTables == 1

MessageLib ==
  {<<Lw("X")>>, <<SP>>, <<Lw("PAD")>>, <<Lw("PAD"), Lw("X")>>, <<Lw("SELECT")>>,
   <<SEMI>>, <<LT, Lw("SCRIPT"), GT>>, <<LT, SLASH, Lw("SCRIPT"), GT>>,
   <<LT, Lw("SCRIPT"), GT, Lw("X"), LT, SLASH, Lw("SCRIPT"), GT>>}
Messages == Texts(MessageLib, MaxMessageSegs)

ResponseLib ==
  {<<Wd("SELECT"), SP, Lw("X")>>, <<Lw("SELECT")>>, <<Lw("X")>>, <<SP>>, <<SEMI>>,
   <<SP, Lw("DROP"), SP, Lw("X")>>, <<SEMI, SP, Wd("SELECT"), SP, Lw("X")>>}
Responses == Texts(ResponseLib, MaxResponseSegs)

NoRows == [ok |-> FALSE, n |-> 0]
Call(f, caller, q) == [fn |-> f, caller |-> caller, query |-> q]

AppIdle ==
  /\ pc = "idle" /\ message = <<>> /\ candidate = NoText /\ sanitized = NoText
  /\ calls = <<>> /\ rows = NoRows /\ status = 0 /\ row_count = -1

FnIdle ==
  /\ fn = "-" /\ fnIn = <<>> /\ fnOut = NoText /\ fnPrev = NoText
  /\ fnVerdict = "-" /\ fnApplied = 0

(***************************************************************************)
(* OpenAIService._extract_sql_from_response and natural_language_to_sql,   *)
(* for a model response without a markdown code fence.                     *)
(***************************************************************************)
_extract_sql_from_response(response) ==
  LET sql_query == Strip(StripSemi(Strip(response)))
  IN IF sql_query # <<>> /\ sql_query[1].k = "word" /\ sql_query[1].w = "SELECT"
     THEN Some(sql_query) ELSE NoText

\* r is what _call_openai_with_retry returned: a text or None.
natural_language_to_sql(r) ==
  IF r.ok /\ r.text # <<>> THEN _extract_sql_from_response(r.text) ELSE NoText

(***************************************************************************)
(* DatabaseManager.get_schema_info: the table query, then one column query *)
(* for each of the n rows it returned.                                     *)
(***************************************************************************)
SchemaCalls(n) ==
  <<Call("execute_query", "get_schema_info", table_query)>>
  \o [i \in 1..n |-> Call("execute_query", "get_schema_info", column_query)]

(***************************************************************************)
(* app.chat, one action for each stretch between two outside calls.        *)
(***************************************************************************)
\* app.py:101
InputRejected(m) == ~validate_input(m)

\* The faulty variant: the check of sanitize_sql's result is dropped.
SanitizeRejectedNever(s) == FALSE

\* app.py:125
SanitizeRejected(s) == ~s.ok \/ s.text = <<>>

\* The faulty variant: the candidate is executed as the translator gave it.
ChatExecuteArgRaw == candidate.text

\* app.py:135
ChatExecuteArg == sanitized.text

\* The faulty variant: a failed execution is summarized like a result.
ExecuteFailedNever(r) == FALSE

\* app.py:137
ExecuteFailed(r) == ~r.ok

\* An error response, or the response of a handler other than chat.
Finish(code) == pc' = "done" /\ status' = code /\ row_count' = -1

\* Lines 97-108: read the body, strip and validate the message.
ChatReceive ==
  /\ pc = "idle"
  /\ \E hasBody \in BOOLEAN : \E raw \in Messages :
       IF ~hasBody
       THEN /\ message' = <<>> /\ Finish(500)
       ELSE /\ message' = raw
            /\ IF InputRejected(Strip(raw)) THEN Finish(400)
               ELSE pc' = "schema" /\ status' = 0 /\ row_count' = -1
  /\ UNCHANGED <<candidate, sanitized, calls, rows>>
  /\ UNCHANGED <<fnVars, auxVars>>

\* Line 111.
ChatSchema ==
  /\ pc = "schema"
  /\ \E n \in 0..MaxTables :
       calls' = calls \o <<Call("get_schema_info", "chat", <<>>)>> \o SchemaCalls(n)
  /\ pc' = "translate"
  /\ UNCHANGED <<message, candidate, sanitized, rows, status, row_count>>
  /\ UNCHANGED <<fnVars, auxVars>>

\* Lines 115-121.
ChatTranslate ==
  /\ pc = "translate"
  /\ \E r \in {NoText} \cup {Some(t) : t \in Responses} :
       /\ candidate' = natural_language_to_sql(r)
       /\ IF ~candidate'.ok THEN Finish(400)
          ELSE pc' = "sanitize" /\ UNCHANGED <<status, row_count>>
  /\ calls' = Append(calls, Call("natural_language_to_sql", "chat", <<>>))
  /\ UNCHANGED <<message, sanitized, rows>>
  /\ UNCHANGED <<fnVars, auxVars>>

\* Lines 124-131.
ChatSanitize ==
  /\ pc = "sanitize"
  /\ sanitized' = sanitize_sql(candidate.text)
  /\ IF SanitizeRejected(sanitized') THEN Finish(400)
     ELSE pc' = "execute" /\ UNCHANGED <<status, row_count>>
  /\ UNCHANGED <<message, candidate, calls, rows>>
  /\ UNCHANGED <<fnVars, auxVars>>

\* Lines 135-141: execute_query returns None or the rows.
ChatExecute ==
  /\ pc = "execute"
  /\ calls' = Append(calls, Call("execute_query", "chat", ChatExecuteArg))
  /\ \E r \in {NoRows} \cup {[ok |-> TRUE, n |-> k] : k \in 0..MaxRows} :
       /\ rows' = r
       /\ IF ExecuteFailed(r) THEN Finish(500)
          ELSE pc' = "summarize" /\ UNCHANGED <<status, row_count>>
  /\ UNCHANGED <<message, candidate, sanitized>>
  /\ UNCHANGED <<fnVars, auxVars>>

\* Lines 145-164.
ChatSummarize ==
  /\ pc = "summarize"
  /\ calls' = Append(calls, Call("sql_results_to_natural_language", "chat", <<>>))
  /\ pc' = "done" /\ status' = 200 /\ row_count' = rows.n
  /\ UNCHANGED <<message, candidate, sanitized, rows>>
  /\ UNCHANGED <<fnVars, auxVars>>

(***************************************************************************)
(* The other callers of execute_query.                                     *)
(***************************************************************************)
\* app.health_check -> DatabaseManager.health_check
HealthCheck ==
  /\ pc = "idle"
  /\ calls' = <<Call("execute_query", "health_check", health_query)>>
  /\ Finish(200)
  /\ UNCHANGED <<message, candidate, sanitized, rows>>
  /\ UNCHANGED <<fnVars, auxVars>>

\* app.get_analytics -> DatabaseManager.get_analytics_data: six statements.
GetAnalytics ==
  /\ pc = "idle"
  /\ calls' = [i \in 1..6 |->
                 Call("execute_query", "get_analytics_data",
                      IF i \in {2, 3, 4} THEN categories_query ELSE metrics_query)]
  /\ Finish(200)
  /\ UNCHANGED <<message, candidate, sanitized, rows>>
  /\ UNCHANGED <<fnVars, auxVars>>

\* A fetch of the data fetcher: _get_cached_data, and on a miss _cache_data.
FetchData ==
  /\ pc = "idle"
  /\ \E hit \in BOOLEAN :
       calls' = <<Call("execute_query", "_get_cached_data", cache_select_query)>>
                \o (IF hit THEN <<>>
                    ELSE <<Call("execute_query", "_cache_data", cache_insert_query)>>)
  /\ Finish(200)
  /\ UNCHANGED <<message, candidate, sanitized, rows>>
  /\ UNCHANGED <<fnVars, auxVars>>

\* The response is sent; the next request finds the handlers' locals fresh.
NextRequest ==
  /\ pc = "done"
  /\ pc' = "idle" /\ message' = <<>> /\ candidate' = NoText /\ sanitized' = NoText
  /\ calls' = <<>> /\ rows' = NoRows /\ status' = 0 /\ row_count' = -1
  /\ UNCHANGED <<fnVars, auxVars>>

(***************************************************************************)
(* One call of a function of the gate on a bounded input.                  *)
(***************************************************************************)
\* Bounds: the number of library segments an input text is made of.
MaxDenySegs == 2
MaxGateSegs == 2
MaxLimitSegs == 3

\* Inputs of the deny-list scanner: every keyword of the list, in upper,
\* lower and mixed case, next to spaces, identifiers, digits, underscores
\* and ;.
DenyLib(kw) ==
  {<<Wd("SELECT"), SP>>, <<SP>>, <<Lw("X")>>, <<Dg("1")>>, <<US>>, <<SEMI>>,
   <<Wd(kw)>>, <<Lw(kw)>>, <<Mw(kw)>>}
DenyTexts == UNION {Texts(DenyLib(kw), MaxDenySegs) : kw \in dangerous_keywords}

\* Inputs of the gate: SELECT in two cases, whitespace of all three kinds,
\* both comments, identifiers, statement ends, LIMIT clauses below and above
\* the cap.
GateLib ==
  {<<Wd("SELECT")>>, <<Lw("SELECT")>>, <<SP>>, <<TAB>>, <<NL>>, <<CMT1>>, <<CMTM>>,
   <<Lw("X")>>, <<US>>, <<SEMI>>,
   <<SP, Lw("LIMIT"), SP, Dg("5")>>, <<NL, Wd("LIMIT"), SP, Dg("500")>>}
GateTexts == Texts(GateLib, MaxGateSegs)

\* Inputs of the limit enforcer.
LimitLib ==
  {<<Lw("X")>>, <<SP>>, <<NL>>, <<SEMI>>, <<US>>, <<Wd("LIMIT")>>, <<Lw("LIMIT")>>,
   <<Dg("5")>>, <<Dg("500")>>}
LimitTexts == Texts(LimitLib, MaxLimitSegs)

FnInit(inputs) ==
  /\ fnIn \in inputs
  /\ fn = "-" /\ fnOut = NoText /\ fnPrev = NoText /\ fnVerdict = "-"
  /\ fnApplied = 0

ApplyClassify ==
  /\ fnApplied = 0
  /\ fn' = "classify" /\ fnVerdict' = Classify(fnIn)
  /\ fnApplied' = 1
  /\ UNCHANGED <<fnIn, fnOut, fnPrev>>
  /\ UNCHANGED <<appVars, auxVars>>

ApplyDenyList ==
  /\ fnApplied = 0
  /\ fn' = "_contains_dangerous_keywords"
  /\ fnVerdict' = IF _contains_dangerous_keywords(fnIn) THEN "DANGEROUS" ELSE "CLEAR"
  /\ fnApplied' = 1
  /\ UNCHANGED <<fnIn, fnOut, fnPrev>>
  /\ UNCHANGED <<appVars, auxVars>>

ApplySanitize ==
  /\ fnApplied = 0
  /\ fn' = "sanitize_sql" /\ fnOut' = sanitize_sql(fnIn)
  /\ fnApplied' = 1
  /\ UNCHANGED <<fnIn, fnPrev, fnVerdict>>
  /\ UNCHANGED <<appVars, auxVars>>

\* _ensure_limit_clause on the input, then on its own result.
ApplyEnsureLimit ==
  /\ fnApplied < 2 /\ fn \in {"-", "_ensure_limit_clause"}
  /\ fn' = "_ensure_limit_clause"
  /\ fnOut' = Some(_ensure_limit_clause(IF fnApplied = 0 THEN fnIn ELSE fnOut.text))
  /\ fnPrev' = fnOut
  /\ fnApplied' = fnApplied + 1
  /\ UNCHANGED <<fnIn, fnVerdict>>
  /\ UNCHANGED <<appVars, auxVars>>

(***************************************************************************)
(* One call of SecurityManager.validate_input with the default max_length. *)
(***************************************************************************)
MaxScanSegs == 2

\* Inputs of the scanner: identifiers, spaces, an SQL word, a ;, single
\* markup characters, an iframe tag, and a run of MaxInputLength letters.
ScanLib ==
  {<<Lw("X")>>, <<SP>>, <<Lw("SELECT")>>, <<SEMI>>, <<LT>>, <<QUOTE>>,
   <<LT, Lw("IFRAME"), GT>>, <<Lw("PAD")>>}
ScanTexts == Texts(ScanLib, MaxScanSegs)

NoScan == [valid |-> FALSE, sanitized |-> <<>>, warnings |-> <<>>]

ScanIdle == scanIn = <<>> /\ scanOut = NoScan /\ scanDone = FALSE

ScanInit == scanIn \in ScanTexts /\ scanOut = NoScan /\ scanDone = FALSE

ApplyScan ==
  /\ ~scanDone
  /\ scanOut' = security_validate_input(scanIn, MaxInputLength)
  /\ scanDone' = TRUE
  /\ UNCHANGED scanIn
  /\ UNCHANGED <<appVars, fnVars, tokVars, cryVars, ipVars, poolVars, lateVars>>

(***************************************************************************)
(* generate_session_token and validate_session_token.  PyJWT is modelled   *)
(* by what it checks: the header's algorithm against the list given, the   *)
(* HMAC over header and payload under the key, and the exp claim.  An HMAC *)
(* is the record of its key and of what it was computed over.              *)
(***************************************************************************)
MaxTime == 2
MaxExpiryHours == 1
MaxTokens == 1

Users == {"alice", "bob"}
Keys == {"jwt_secret", "other"}
Algorithms == {"HS256", "none"}

NoToken == [user |-> "-", exp |-> 0, alg |-> "-",
            mac |-> [key |-> "-", user |-> "-", exp |-> 0]]

\* HMAC-SHA256 of the payload under key.
Sign(key, user, exp) == [key |-> key, user |-> user, exp |-> exp]

\* Lines 78-86: jwt.encode(payload, self.jwt_secret, algorithm='HS256').
generate_session_token(user_id, expiry_hours, now) ==
  [user |-> user_id, exp |-> now + expiry_hours, alg |-> "HS256",
   mac |-> Sign("jwt_secret", user_id, now + expiry_hours)]

\* A faulty variant: the payload is read without verifying the signature.
ValidateSessionTokenUnverified(token, now, strict) ==
  IF token.exp < now \/ (strict /\ token.exp = now) THEN "None"
  ELSE IF now > token.exp THEN "None"
  ELSE "payload"

\* Lines 104-119.  jwt.decode raises InvalidAlgorithmError for a header
\* algorithm outside ['HS256'], InvalidSignatureError for a signature that
\* is not the HMAC of the payload under jwt_secret, ExpiredSignatureError
\* for an exp that has passed; strict says whether the installed PyJWT
\* counts exp = now as passed.  Line 108 compares once more.
validate_session_token(token, now, strict) ==
  IF token.alg # "HS256" THEN "None"
  ELSE IF token.mac # Sign("jwt_secret", token.user, token.exp) THEN "None"
  ELSE IF token.exp < now \/ (strict /\ token.exp = now) THEN "None"
  ELSE IF now > token.exp THEN "None"
  ELSE "payload"

NoResult == [out |-> "-", at |-> 0]

TokIdle ==
  tokNow = 0 /\ tokToken = NoToken /\ tokIssued = {} /\ tokResult = NoResult

\* The manager issues a token.
GenerateToken ==
  /\ tokToken = NoToken /\ Cardinality(tokIssued) < MaxTokens
  /\ \E u \in Users : \E h \in 0..MaxExpiryHours :
       /\ tokToken' = generate_session_token(u, h, tokNow)
       /\ tokIssued' = tokIssued \cup {[user |-> u, exp |-> tokNow + h]}
  /\ UNCHANGED <<tokNow, tokResult>>
  /\ UNCHANGED <<appVars, fnVars, scanVars, cryVars, ipVars, poolVars, lateVars>>

\* A client without the secret makes a token of its own: any payload, any
\* header, signed under its own key or not at all.
ForgeToken ==
  /\ tokToken = NoToken
  /\ \E u \in Users : \E e \in 0..(MaxTime + MaxExpiryHours) : \E a \in Algorithms :
       tokToken' = [user |-> u, exp |-> e, alg |-> a,
                    mac |-> IF a = "none" THEN NoToken.mac ELSE Sign("other", u, e)]
  /\ UNCHANGED <<tokNow, tokIssued, tokResult>>
  /\ UNCHANGED <<appVars, fnVars, scanVars, cryVars, ipVars, poolVars, lateVars>>

\* A client rewrites the payload or the header of a token and keeps the signature.
TamperToken ==
  /\ tokToken # NoToken
  /\ \E u \in Users : \E e \in 0..(MaxTime + MaxExpiryHours) : \E a \in Algorithms :
       /\ <<u, e, a>> # <<tokToken.user, tokToken.exp, tokToken.alg>>
       /\ tokToken' = [tokToken EXCEPT !.user = u, !.exp = e, !.alg = a]
  /\ tokResult' = NoResult
  /\ UNCHANGED <<tokNow, tokIssued>>
  /\ UNCHANGED <<appVars, fnVars, scanVars, cryVars, ipVars, poolVars, lateVars>>

Tick ==
  /\ tokNow < MaxTime
  /\ tokNow' = tokNow + 1
  /\ UNCHANGED <<tokToken, tokIssued, tokResult>>
  /\ UNCHANGED <<appVars, fnVars, scanVars, cryVars, ipVars, poolVars, lateVars>>

ValidateToken ==
  /\ tokToken # NoToken
  /\ \E strict \in BOOLEAN :
       tokResult' = [out |-> validate_session_token(tokToken, tokNow, strict),
                     at |-> tokNow]
  /\ UNCHANGED <<tokNow, tokToken, tokIssued>>
  /\ UNCHANGED <<appVars, fnVars, scanVars, cryVars, ipVars, poolVars, lateVars>>

\* The token is dropped; the next one is looked at.
DropToken ==
  /\ tokToken # NoToken
  /\ tokToken' = NoToken /\ tokResult' = NoResult
  /\ UNCHANGED <<tokNow, tokIssued>>
  /\ UNCHANGED <<appVars, fnVars, scanVars, cryVars, ipVars, poolVars, lateVars>>

(***************************************************************************)
(* encrypt_data and decrypt_data.  Fernet is modelled by what a token      *)
(* holds: the key it was made under, the initialisation vector drawn for   *)
(* it, and the data.  What os.urandom returns is new each time: the n-th   *)
(* draw of a key or of a vector is the value n.                            *)
(***************************************************************************)
MaxManagers == 2
MaxCiphertexts == 2

Plaintexts == {"", "a"}

\* A str: as given, or a Fernet token.
Plain(v) == [kind |-> "str", key |-> <<>>, iv |-> 0, v |-> v]
FernetToken(key, iv, v) == [kind |-> "fernet", key |-> key, iv |-> iv, v |-> v]

\* Line 30: os.getenv('ENCRYPTION_KEY', Fernet.generate_key()), for the n-th
\* instance of the process.
encryption_key(env, n) == IF env # "unset" THEN <<"env", 0>> ELSE <<"generated", n>>

\* A faulty variant: every token is made with the same vector.
EncryptDataFixedIv(key, data, iv) == FernetToken(key, 0, data)

\* Line 157: self.cipher_suite.encrypt(data.encode()).decode()
encrypt_data(key, data, iv) == FernetToken(key, iv, data)

\* Line 169: Fernet.decrypt raises InvalidToken for what is not a token made
\* under the key.
decrypt_data(key, encrypted_data) ==
  IF encrypted_data.kind = "fernet" /\ encrypted_data.key = key
  THEN [ok |-> TRUE, v |-> encrypted_data.v]
  ELSE [ok |-> FALSE, v |-> "InvalidToken"]

NoDecrypt == [by |-> 0, n |-> 0, out |-> [ok |-> FALSE, v |-> "-"]]

\* Line 345: the module constructs the global instance when it is loaded.
CryInit ==
  /\ cryEnv \in {"unset", "set"}
  /\ cryKeys = <<encryption_key(cryEnv, 1)>>
  /\ cryBox = <<>> /\ cryLast = NoDecrypt

CryIdle ==
  /\ cryEnv = "unset" /\ cryKeys = <<encryption_key("unset", 1)>>
  /\ cryBox = <<>> /\ cryLast = NoDecrypt

\* Lines 287, 305, 332: a decorator constructs an instance for a request.
ConstructManager ==
  /\ Len(cryKeys) < MaxManagers
  /\ cryKeys' = Append(cryKeys, encryption_key(cryEnv, Len(cryKeys) + 1))
  /\ UNCHANGED <<cryEnv, cryBox, cryLast>>
  /\ UNCHANGED <<appVars, fnVars, scanVars, tokVars, ipVars, poolVars, lateVars>>

EncryptData ==
  /\ Len(cryBox) < MaxCiphertexts
  /\ \E i \in 1..Len(cryKeys) : \E x \in Plaintexts :
       cryBox' = Append(cryBox, [by |-> i, of |-> x,
                                 ct |-> encrypt_data(cryKeys[i], x, Len(cryBox) + 1)])
  /\ UNCHANGED <<cryEnv, cryKeys, cryLast>>
  /\ UNCHANGED <<appVars, fnVars, scanVars, tokVars, ipVars, poolVars, lateVars>>

DecryptData ==
  /\ \E i \in 1..Len(cryKeys) : \E n \in 1..Len(cryBox) :
       cryLast' = [by |-> i, n |-> n, out |-> decrypt_data(cryKeys[i], cryBox[n].ct)]
  /\ UNCHANGED <<cryEnv, cryKeys, cryBox>>
  /\ UNCHANGED <<appVars, fnVars, scanVars, tokVars, ipVars, poolVars, lateVars>>

(***************************************************************************)
(* check_ip_whitelist.  The ipaddress module is modelled by what it does:  *)
(* ip_address parses four decimal numbers of at most 255 joined by dots,   *)
(* or an IPv6 address, and raises ValueError for anything else; an address *)
(* is in a network when both are of one version and the address agrees     *)
(* with the network on its first prefix bits.                              *)
(***************************************************************************)
\* How an address string is written:
\*   "v4"        a.b.c.d            "v4_space"  a.b.c.d after a space
\*   "v4_three"  a.b.c              "v6_mapped" ::ffff:a.b.c.d
\*   "name"      a host name        "empty"     the empty string
AddressForms == {"v4", "v4_space", "v4_three", "v6_mapped", "name", "empty"}

FirstOctets == {9, 10, 11, 126, 127, 128, 171, 172, 173, 191, 192, 193, 256}
SecondOctets == {0, 15, 16, 31, 32, 167, 168, 169, 255}
LastOctets == {0, 255}

Addresses ==
  {[form |-> f, octets |-> <<a, b, c, d>>] :
     f \in AddressForms, a \in FirstOctets, b \in SecondOctets,
     c \in LastOctets, d \in LastOctets}

RECURSIVE Pow2(_)
Pow2(n) == IF n = 0 THEN 1 ELSE 2 * Pow2(n - 1)

\* The 32 bits of an address, as its upper and its lower 16 bits.
AddressHi(o) == o[1] * Pow2(8) + o[2]
AddressLo(o) == o[3] * Pow2(8) + o[4]

\* ipaddress.ip_address(ip_address): the version and the number, or ValueError.
ip_address(a) ==
  IF \E i \in 1..4 : a.octets[i] > 255 THEN [ok |-> FALSE, version |-> 0, hi |-> 0, lo |-> 0]
  ELSE IF a.form \in {"v4", "v6_mapped"}
       THEN [ok |-> TRUE, version |-> IF a.form = "v4" THEN 4 ELSE 6,
             hi |-> AddressHi(a.octets), lo |-> AddressLo(a.octets)]
  ELSE [ok |-> FALSE, version |-> 0, hi |-> 0, lo |-> 0]

\* Lines 60-65.
allowed_ip_ranges ==
  <<[net |-> <<127, 0, 0, 0>>, prefix |-> 8], [net |-> <<10, 0, 0, 0>>, prefix |-> 8],
    [net |-> <<172, 16, 0, 0>>, prefix |-> 12], [net |-> <<192, 168, 0, 0>>, prefix |-> 16]>>

\* ip in ipaddress.ip_network(range_str)
InNetwork(ip, range) ==
  /\ ip.version = 4
  /\ IF range.prefix <= 16
     THEN ip.hi \div Pow2(16 - range.prefix)
            = AddressHi(range.net) \div Pow2(16 - range.prefix)
     ELSE /\ ip.hi = AddressHi(range.net)
          /\ ip.lo \div Pow2(32 - range.prefix)
               = AddressLo(range.net) \div Pow2(32 - range.prefix)

\* A faulty variant: an address that does not parse is let in.
CheckIpWhitelistDefaultAllow(a) ==
  IF ~ip_address(a).ok THEN "True"
  ELSE IF \E r \in 1..Len(allowed_ip_ranges) : InNetwork(ip_address(a), allowed_ip_ranges[r])
       THEN "True" ELSE "False"

\* Lines 227-239.
check_ip_whitelist(a) ==
  IF ~ip_address(a).ok THEN "False"
  ELSE IF \E r \in 1..Len(allowed_ip_ranges) : InNetwork(ip_address(a), allowed_ip_ranges[r])
       THEN "True" ELSE "False"

IpIdle == ipIn = [form |-> "empty", octets |-> <<0, 0, 0, 0>>] /\ ipOut = "-"

IpInit == ipIn \in Addresses /\ ipOut = "-"

ApplyCheckIp ==
  /\ ipOut = "-"
  /\ ipOut' = check_ip_whitelist(ipIn)
  /\ UNCHANGED ipIn
  /\ UNCHANGED <<appVars, fnVars, scanVars, tokVars, cryVars, poolVars, lateVars>>

(***************************************************************************)
(* DatabaseManager: get_connection, execute_query, execute_update and      *)
(* get_sample_data, one action for each stretch between two calls of the   *)
(* driver.  psycopg2's ThreadedConnectionPool is modelled by what getconn  *)
(* and putconn do under the pool's lock.                                   *)
(***************************************************************************)
NumThreads == 2
MaxConnections == 1
min_connections == 1

Threads == 1..NumThreads
Methods == {"execute_query", "execute_update", "get_sample_data"}

NoReturn == [kind |-> "-", n |-> 0]

ThreadIdle ==
  [pc |-> "idle", method |-> "-", conn |-> 0, log |-> <<>>, puts |-> 0,
   got |-> FALSE, exhausted |-> FALSE, failed |-> FALSE, closed |-> FALSE,
   rows |-> 0, result |-> NoReturn]

\* A faulty variant: the pool hands out connections without a limit.
GetconnUnbounded(idle, used) ==
  IF idle # <<>>
  THEN [ok |-> TRUE, conn |-> idle[Len(idle)], idle |-> SubSeq(idle, 1, Len(idle) - 1)]
  ELSE [ok |-> TRUE, idle |-> idle,
        conn |-> CHOOSE c \in Threads : c \notin used /\ \A d \in 1..(c - 1) : d \in used]

\* connection_pool.getconn() (line 70): an idle connection if there is one,
\* PoolError if maxconn connections are checked out, a new connection
\* otherwise.
getconn(idle, used) ==
  IF idle # <<>>
  THEN [ok |-> TRUE, conn |-> idle[Len(idle)], idle |-> SubSeq(idle, 1, Len(idle) - 1)]
  ELSE IF Cardinality(used) >= MaxConnections
  THEN [ok |-> FALSE, conn |-> 0, idle |-> idle]
  ELSE [ok |-> TRUE, idle |-> idle,
        conn |-> CHOOSE c \in Threads : c \notin used /\ \A d \in 1..(c - 1) : d \in used]

\* connection_pool.putconn(connection) (line 85): an open connection is
\* kept while fewer than minconn are idle, and closed otherwise.
putconn(idle, used, conn, closed) ==
  [idle |-> IF Len(idle) < min_connections /\ ~closed THEN Append(idle, conn) ELSE idle,
   used |-> used \ {conn}, puts |-> 1]

\* A faulty variant: the connection is given back only when the body ended
\* without an exception.
GetConnectionExitOnSuccessOnly(idle, used, conn, closed, failed) ==
  IF failed THEN [idle |-> idle, used |-> used, puts |-> 0]
  ELSE putconn(idle, used, conn, closed)

\* Lines 74-85: how get_connection ends once it has yielded a connection.
\* An exception of the body is logged and raised again after a rollback;
\* finally gives the connection back.
get_connection_exit(idle, used, conn, closed, failed) == putconn(idle, used, conn, closed)

\* A faulty variant: an error gives the empty list.
ExecuteQueryReturnEmptyOnError(failed, n) == [kind |-> "rows", n |-> 0]

\* Lines 98-128: the rows, or None when psycopg2.Error or any other
\* Exception was raised.
execute_query_return(failed, n) ==
  IF failed THEN [kind |-> "None", n |-> 0] ELSE [kind |-> "rows", n |-> n]

\* Lines 141-166: the number of affected rows, or -1.
execute_update_return(failed, n) ==
  IF failed THEN [kind |-> "-1", n |-> 0] ELSE [kind |-> "rowcount", n |-> n]

\* Lines 252-267: the rows, or the empty list.
get_sample_data_return(failed, n) ==
  IF failed THEN [kind |-> "rows", n |-> 0] ELSE [kind |-> "rows", n |-> n]

ReturnOf(method, failed, n) ==
  CASE method = "execute_query" -> execute_query_return(failed, n)
    [] method = "execute_update" -> execute_update_return(failed, n)
    [] OTHER -> get_sample_data_return(failed, n)

\* The first call of the driver on the connection: lines 102, 145, 259.
FirstStep(method) == IF method = "get_sample_data" THEN "exec" ELSE "set"

\* Line 48: the pool opens minconn connections when it is constructed.
PoolInit ==
  /\ th = [t \in Threads |-> ThreadIdle]
  /\ poolIdle = [i \in 1..min_connections |-> i]
  /\ poolUsed = {}

PoolIdle == PoolInit

\* A thread calls a method, which enters get_connection (lines 68-72).
\* connect says whether a new connection to the server can be opened.
Acquire(t) ==
  /\ th[t].pc = "idle"
  /\ \E m \in Methods : \E connect \in BOOLEAN :
       LET g == getconn(poolIdle, poolUsed)
       IN IF g.ok /\ (connect \/ poolIdle # <<>>)
          THEN /\ th' = [th EXCEPT ![t] = [ThreadIdle EXCEPT !.pc = FirstStep(m),
                                             !.method = m, !.conn = g.conn, !.got = TRUE]]
               /\ poolIdle' = g.idle
               /\ poolUsed' = poolUsed \cup {g.conn}
          ELSE /\ th' = [th EXCEPT ![t] = [ThreadIdle EXCEPT !.method = m, !.failed = TRUE,
                                             !.exhausted = ~g.ok,
                                             !.result = ReturnOf(m, TRUE, 0)]]
               /\ UNCHANGED <<poolIdle, poolUsed>>
  /\ UNCHANGED <<appVars, fnVars, scanVars, tokVars, cryVars, ipVars, lateVars>>

\* A call of the driver raises; lost says whether the server closed the
\* connection.
Raised(t, call, lost) ==
  [th EXCEPT ![t].log = IF call = "-" THEN @ ELSE Append(@, call),
             ![t].pc = "fail", ![t].failed = TRUE, ![t].closed = lost]

\* cursor.execute("SET statement_timeout = '30s'") (lines 102, 145).
SetTimeout(t) ==
  /\ th[t].pc = "set"
  /\ \/ th' = [th EXCEPT ![t].log = Append(@, "SET"), ![t].pc = "exec"]
     \/ \E lost \in BOOLEAN : th' = Raised(t, "SET", lost)
  /\ UNCHANGED <<poolIdle, poolUsed>>
  /\ UNCHANGED <<appVars, fnVars, scanVars, tokVars, cryVars, ipVars, lateVars>>

\* cursor.execute(query) (lines 105-108, 148-151, 259).
Execute(t) ==
  /\ th[t].pc = "exec"
  /\ \/ th' = [th EXCEPT ![t].log = Append(@, "STATEMENT"),
                          ![t].pc = IF th[t].method = "execute_update" THEN "commit"
                                    ELSE "fetch"]
     \/ \E lost \in BOOLEAN : th' = Raised(t, "STATEMENT", lost)
  /\ UNCHANGED <<poolIdle, poolUsed>>
  /\ UNCHANGED <<appVars, fnVars, scanVars, tokVars, cryVars, ipVars, lateVars>>

\* cursor.fetchall() and cursor.description (lines 111-112, 260-261): the
\* rows, or an error when the statement gave no result set.
Fetch(t) ==
  /\ th[t].pc = "fetch"
  /\ \/ \E n \in 0..MaxRows : th' = [th EXCEPT ![t].pc = "exit", ![t].rows = n]
     \/ \E lost \in BOOLEAN : th' = Raised(t, "-", lost)
  /\ UNCHANGED <<poolIdle, poolUsed>>
  /\ UNCHANGED <<appVars, fnVars, scanVars, tokVars, cryVars, ipVars, lateVars>>

\* conn.commit() and cursor.rowcount (lines 154-156).
Commit(t) ==
  /\ th[t].pc = "commit"
  /\ \/ \E n \in 0..MaxRows : th' = [th EXCEPT ![t].pc = "exit", ![t].rows = n]
     \/ \E lost \in BOOLEAN : th' = Raised(t, "-", lost)
  /\ UNCHANGED <<poolIdle, poolUsed>>
  /\ UNCHANGED <<appVars, fnVars, scanVars, tokVars, cryVars, ipVars, lateVars>>

\* The with block is left (lines 74-85) and the method returns.
Release(t) ==
  /\ th[t].pc \in {"exit", "fail"}
  /\ LET p == get_connection_exit(poolIdle, poolUsed, th[t].conn, th[t].closed,
                                 th[t].failed)
     IN /\ poolIdle' = p.idle
        /\ poolUsed' = p.used
        /\ th' = [th EXCEPT ![t].pc = "idle",
                            ![t].conn = 0,
                            ![t].puts = @ + p.puts,
                            ![t].result = ReturnOf(th[t].method, th[t].failed, th[t].rows)]
  /\ UNCHANGED <<appVars, fnVars, scanVars, tokVars, cryVars, ipVars, lateVars>>

(***************************************************************************)
(* DatabaseManager.get_schema_info (database.py:168-239), one action for   *)
(* each stretch that ends with a call of execute_query.                    *)
(***************************************************************************)
MaxSchemaRows == 2
MaxColumns == 1

TableNames == {"orders", "users"}
TableTypes == {"BASE TABLE", "VIEW"}
TableSchemas == {"public", "sales"}
TableRows ==
  [table_name : TableNames, table_type : TableTypes, table_schema : TableSchemas]

RECURSIVE RowLists(_)
RowLists(n) ==
  IF n = 0 THEN {<<>>}
  ELSE LET prev == RowLists(n - 1) IN prev \cup {Append(l, r) : l \in prev, r \in TableRows}

\* What the table query can return: None, or a list of rows.
NoTables == [ok |-> FALSE, rows |-> <<>>]
TableResults == {NoTables} \cup {[ok |-> TRUE, rows |-> l] : l \in RowLists(MaxSchemaRows)}

\* Lines 176-181.
EmptySnapshot ==
  [tables |-> <<>>, views |-> <<>>, total_tables |-> 0, total_columns |-> 0]

\* d[k] = v of a dictionary.
Put(d, k, v) == [x \in (DOMAIN d) \cup {k} |-> IF x = k THEN v ELSE d[x]]

\* Lines 217-222: columns is the list execute_query returned (here: its
\* length), or the empty list when it returned None.
TableInfo(table, columns) ==
  [type |-> table.table_type, schema |-> table.table_schema,
   columns |-> IF columns.ok THEN columns.n ELSE 0,
   column_count |-> IF columns.ok /\ columns.n > 0 THEN columns.n ELSE 0]

\* A faulty variant: a table whose column query failed is left out.
PlaceTableSkipFailed(info, table, columns) ==
  IF ~columns.ok THEN info
  ELSE IF table.table_type = "BASE TABLE"
  THEN [info EXCEPT !.tables = Put(@, table.table_name, TableInfo(table, columns)),
                    !.total_columns = @ + TableInfo(table, columns).column_count]
  ELSE [info EXCEPT !.views = Put(@, table.table_name, TableInfo(table, columns)),
                    !.total_columns = @ + TableInfo(table, columns).column_count]

\* Lines 217-229.
PlaceTable(info, table, columns) ==
  IF table.table_type = "BASE TABLE"
  THEN [info EXCEPT !.tables = Put(@, table.table_name, TableInfo(table, columns)),
                    !.total_columns = @ + TableInfo(table, columns).column_count]
  ELSE [info EXCEPT !.views = Put(@, table.table_name, TableInfo(table, columns)),
                    !.total_columns = @ + TableInfo(table, columns).column_count]

SchIdle ==
  /\ schPc = "idle" /\ schRows = NoTables /\ schCols = <<>> /\ schIdx = 0
  /\ schInfo = EmptySnapshot /\ schCalls = <<>>

\* Lines 176-196: the snapshot is set up and the table query is run.
SchemaTables ==
  /\ schPc = "idle"
  /\ schCalls' = <<Call("execute_query", "get_schema_info", table_query)>>
  /\ schInfo' = EmptySnapshot /\ schCols' = <<>>
  /\ \E tables \in TableResults :
       /\ schRows' = tables
       /\ IF ~tables.ok \/ tables.rows = <<>>
          THEN schPc' = "done" /\ schIdx' = 0
          ELSE schPc' = "columns" /\ schIdx' = 1
  /\ UNCHANGED <<appVars, fnVars, exceptSch>>

\* Lines 199-229: one turn of the loop, and what follows the last turn.
SchemaColumns ==
  /\ schPc = "columns"
  /\ schCalls' = Append(schCalls, Call("execute_query", "get_schema_info", column_query))
  /\ \E columns \in {NoRows} \cup {[ok |-> TRUE, n |-> k] : k \in 0..MaxColumns} :
       LET placed == PlaceTable(schInfo, schRows.rows[schIdx], columns)
       IN /\ schCols' = Append(schCols, columns)
          /\ IF schIdx = Len(schRows.rows)
             THEN /\ schPc' = "done"
                  /\ schInfo' = [placed EXCEPT
                                   !.total_tables = Cardinality(DOMAIN placed.tables)]
                  /\ UNCHANGED schIdx
             ELSE /\ schIdx' = schIdx + 1
                  /\ schInfo' = placed
                  /\ UNCHANGED schPc
  /\ UNCHANGED schRows
  /\ UNCHANGED <<appVars, fnVars, exceptSch>>

(***************************************************************************)
(* OpenAIService._call_openai_with_retry (openai_service.py:219-255), one  *)
(* action for each turn of the loop.                                       *)
(***************************************************************************)
max_retries == 3
retry_delay == 1

\* max_tokens of the three callers: lines 95, 159, 304.
CallerTokens == {500, 800, 10}

\* message.content of a choice: a string, or None.
NoContent == [ok |-> FALSE, text |-> ""]
Contents == {NoContent} \cup {[ok |-> TRUE, text |-> t] : t \in {"", "SELECT 1", "healthy"}}

\* What client.chat.completions.create can do: raise, return a response
\* without choices, return a response with a choice.
Outcomes ==
  {[kind |-> "raise", content |-> NoContent], [kind |-> "nochoice", content |-> NoContent]}
  \cup {[kind |-> "choice", content |-> c] : c \in Contents}

RtIdle ==
  /\ rtPc = "idle" /\ rtTokens = 0 /\ rtAttempt = 0 /\ rtLog = <<>>
  /\ rtSleeps = <<>> /\ rtOut = NoContent

\* Lines 95, 159, 304: a caller enters the function.
RetryCall ==
  /\ rtPc = "idle"
  /\ rtTokens' \in CallerTokens
  /\ rtPc' = "loop"
  /\ UNCHANGED <<rtAttempt, rtLog, rtSleeps, rtOut>>
  /\ UNCHANGED <<appVars, fnVars, exceptRt>>

\* Line 250.
SleepTime(attempt) == retry_delay * Pow2(attempt)

\* Lines 230-255: one turn of the loop, and the return that ends the call.
RetryAttempt ==
  /\ rtPc = "loop" /\ rtAttempt < max_retries
  /\ \E o \in Outcomes :
       /\ rtLog' = Append(rtLog, o)
       /\ rtSleeps' = IF o.kind = "raise" /\ rtAttempt < max_retries - 1
                      THEN Append(rtSleeps, [attempt |-> rtAttempt,
                                             secs |-> SleepTime(rtAttempt)])
                      ELSE rtSleeps
       /\ IF o.kind = "choice"
          THEN rtPc' = "done" /\ rtOut' = o.content /\ UNCHANGED rtAttempt
          ELSE IF rtAttempt + 1 = max_retries
          THEN rtPc' = "done" /\ rtOut' = NoContent /\ rtAttempt' = rtAttempt + 1
          ELSE rtAttempt' = rtAttempt + 1 /\ UNCHANGED <<rtPc, rtOut>>
  /\ UNCHANGED rtTokens
  /\ UNCHANGED <<appVars, fnVars, exceptRt>>

(***************************************************************************)
(* security.validate_input_security (security.py:300-326).                 *)
(***************************************************************************)
MaxGuardFields == 2

\* Strings the scanner passes and strings it refuses.
GuardStrings == {<<Lw("X")>>, <<LT, Lw("SCRIPT"), GT>>, <<Lw("SELECT")>>}

\* A JSON value: a string, a number, or an object or an array that holds a
\* string.
JsonValues ==
  {[kind |-> "number", text |-> <<>>]}
  \cup [kind : {"string", "object", "array"}, text : GuardStrings]

RECURSIVE ValueLists(_)
ValueLists(n) ==
  IF n = 0 THEN {<<>>}
  ELSE LET prev == ValueLists(n - 1) IN prev \cup {Append(l, v) : l \in prev, v \in JsonValues}

\* The body: not JSON, a JSON object with these field values, or a JSON
\* array with these elements.
NoBody == [shape |-> "none", values |-> <<>>]
Bodies == {NoBody} \cup [shape : {"object", "array"}, values : ValueLists(MaxGuardFields)]

NoAnswer ==
  [done |-> FALSE, status |-> 0, invoked |-> FALSE, warnings |-> <<>>, events |-> <<>>]

\* Lines 311-313: the values validate_input is called with, in the order of
\* the loop: the values of the body, if it is a dict, that are strings.
ScannedValues(body) ==
  IF body.shape = "object"
  THEN SelectSeq(body.values, LAMBDA v : v.kind = "string")
  ELSE <<>>

\* Lines 311-323: the loop over the values, up to the first one refused.
RECURSIVE GuardLoop(_, _)
GuardLoop(values, max_length) ==
  IF values = <<>>
  THEN [done |-> TRUE, status |-> 200, invoked |-> TRUE, warnings |-> <<>>,
        events |-> <<>>]
  ELSE LET validation == security_validate_input(Head(values).text, max_length)
       IN IF ~validation.valid
          THEN [done |-> TRUE, status |-> 400, invoked |-> FALSE,
                warnings |-> validation.warnings,
                events |-> <<[event_type |-> "invalid_input",
                              warnings |-> validation.warnings]>>]
          ELSE GuardLoop(Tail(values), max_length)

GdInit == gdBody \in Bodies /\ gdOut = NoAnswer
GdIdle == gdBody = NoBody /\ gdOut = NoAnswer

\* Lines 304-325: decorated_function.
GuardRequest ==
  /\ ~gdOut.done
  /\ gdOut' = GuardLoop(ScannedValues(gdBody), MaxInputLength)
  /\ UNCHANGED gdBody
  /\ UNCHANGED <<appVars, fnVars, exceptGd>>

(***************************************************************************)
(* security.require_valid_session (security.py:278-298) and the secrets of *)
(* the SecurityManager instances it meets.                                 *)
(***************************************************************************)
MaxRequests == 2

\* Line 29: os.getenv('JWT_SECRET_KEY', secrets.token_urlsafe(32)) in the
\* n-th SecurityManager the process constructs.
jwt_secret(env, n) == IF env = "set" THEN <<"env">> ELSE <<"generated", n>>

\* Lines 78-86 with the secret of the manager that signs.
EncodeSession(secret, user_id, exp) ==
  [user |-> user_id, exp |-> exp, alg |-> "HS256", mac |-> Sign(secret, user_id, exp)]

\* Lines 104-119 with the secret of the manager that validates: the
\* payload's user_id, or None.
DecodeSession(secret, token, now) ==
  IF token.alg # "HS256" THEN "None"
  ELSE IF token.mac # Sign(secret, token.user, token.exp) THEN "None"
  ELSE IF now > token.exp THEN "None"
  ELSE token.user

Headers == {"missing", "Basic", "Bearer"}

NoRequest == [header |-> "-", at |-> 0, status |-> 0, user_id |-> "-"]

SsIdle ==
  /\ ssEnv = "unset" /\ ssNow = 0 /\ ssToken = NoToken /\ ssRequests = 0
  /\ ssOut = NoRequest

SsInit ==
  /\ ssEnv \in {"set", "unset"} /\ ssNow = 0 /\ ssToken = NoToken
  /\ ssRequests = 0 /\ ssOut = NoRequest

\* security_manager (line 345), the first SecurityManager of the process,
\* issues a token.
SessionIssue ==
  /\ ssToken = NoToken
  /\ \E u \in Users : \E h \in 1..(MaxExpiryHours + 1) :
       ssToken' = EncodeSession(jwt_secret(ssEnv, 1), u, ssNow + h)
  /\ UNCHANGED <<ssEnv, ssNow, ssRequests, ssOut>>
  /\ UNCHANGED <<appVars, fnVars, exceptSs>>

SessionTick ==
  /\ ssNow < MaxTime
  /\ ssNow' = ssNow + 1
  /\ UNCHANGED <<ssEnv, ssToken, ssRequests, ssOut>>
  /\ UNCHANGED <<appVars, fnVars, exceptSs>>

\* Lines 281-297: decorated_function.  The SecurityManager of line 287 is
\* the next one the process constructs.
SessionRequest ==
  /\ ssToken # NoToken /\ ssRequests < MaxRequests
  /\ ssRequests' = ssRequests + 1
  /\ \E header \in Headers :
       IF header # "Bearer"
       THEN ssOut' = [header |-> header, at |-> ssNow, status |-> 401, user_id |-> "-"]
       ELSE LET payload == DecodeSession(jwt_secret(ssEnv, 1 + ssRequests'), ssToken, ssNow)
            IN ssOut' = IF payload = "None"
                        THEN [header |-> header, at |-> ssNow, status |-> 401,
                              user_id |-> "-"]
                        ELSE [header |-> header, at |-> ssNow, status |-> 200,
                              user_id |-> payload]
  /\ UNCHANGED <<ssEnv, ssNow, ssToken>>
  /\ UNCHANGED <<appVars, fnVars, exceptSs>>

(***************************************************************************)
(* DataFetcher._get_cached_data and _cache_data (data_fetcher.py:397-460)  *)
(* on the database behind DatabaseManager.execute_query.                   *)
(***************************************************************************)
MaxCacheTime == 3

\* Lines 41-46, in quarters of an hour (900 s).
cache_duration == [api |-> 1, rss |-> 2]

SourceTypes == {"api", "rss"}
Urls == {"u1", "u2"}

\* Line 395: the MD5 of source_type:url, taken to be free of collisions.
_get_cache_key(source_type, url) == <<source_type, url>>
CacheKeys == {_get_cache_key(t, u) : t \in SourceTypes, u \in Urls}

\* The data: a list, or a tuple, which json.dumps writes as a list.
CacheData == [kind : {"list", "tuple"}, v : {1, 2}]
JsonDumps(d) == [kind |-> "list", v |-> d.v]
JsonLoads(j) == j

NoData == [ok |-> FALSE, d |-> [kind |-> "-", v |-> 0]]
NoPut == [key |-> <<>>, d |-> NoData.d, at |-> 0]
NoGet == [key |-> <<>>, at |-> 0, result |-> NoData]

\* INSERT ... ON CONFLICT (cache_key) DO UPDATE, inside the transaction.
Upsert(table, key, data, created_at) ==
  [k \in (DOMAIN table) \cup {key} |->
     IF k = key THEN [data |-> data, created_at |-> created_at] ELSE table[k]]

\* database.py:98-128 for a statement that writes: execute_query never
\* commits.  fetchall raises for a statement without result set, and
\* get_connection rolls the transaction back (database.py:76-77) before
\* the connection returns to the pool; the table is as it was committed.
ExecuteQueryWrites(committed, written) == committed

\* database.py:98-120 for the SELECT of line 415: the rows of the key
\* that are younger than the cutoff.
ExecuteQuerySelects(table, key, cutoff_time) ==
  IF key \in DOMAIN table /\ table[key].created_at > cutoff_time
  THEN <<table[key]>> ELSE <<>>

CIdle == cNow = 0 /\ cTable = <<>> /\ cPut = NoPut /\ cGet = NoGet

\* Lines 431-460.
CacheDataCall ==
  /\ \E t \in SourceTypes : \E u \in Urls : \E d \in CacheData :
       LET cache_key == _get_cache_key(t, u)
       IN /\ cTable' = ExecuteQueryWrites(cTable,
                                          Upsert(cTable, cache_key, JsonDumps(d), cNow))
          /\ cPut' = [key |-> cache_key, d |-> d, at |-> cNow]
  /\ cGet' = NoGet
  /\ UNCHANGED cNow
  /\ UNCHANGED <<appVars, fnVars, exceptC>>

\* Lines 397-429.
GetCachedDataCall ==
  /\ \E t \in SourceTypes : \E u \in Urls :
       LET cache_key == _get_cache_key(t, u)
           result == ExecuteQuerySelects(cTable, cache_key, cNow - cache_duration[t])
       IN cGet' = [key |-> cache_key, at |-> cNow,
                   result |-> IF result # <<>>
                              THEN [ok |-> TRUE, d |-> JsonLoads(result[1].data)]
                              ELSE NoData]
  /\ UNCHANGED <<cNow, cTable, cPut>>
  /\ UNCHANGED <<appVars, fnVars, exceptC>>

CacheTick ==
  /\ cNow < MaxCacheTime
  /\ cNow' = cNow + 1
  /\ UNCHANGED <<cTable, cPut, cGet>>
  /\ UNCHANGED <<appVars, fnVars, exceptC>>

(***************************************************************************)
(* DatabaseManager.execute_query, lines 111-118: dict(zip(column_names,    *)
(* row)).                                                                  *)
(***************************************************************************)
MaxResultColumns == 2

ResultColumnNames == {"id", "name", "total"}
ResultValues == {1, 2, 3}

RECURSIVE SeqsOver(_, _)
SeqsOver(S, n) ==
  IF n = 0 THEN {<<>>}
  ELSE LET prev == SeqsOver(S, n - 1) IN prev \cup {Append(l, x) : l \in prev, x \in S}

\* d[key] = value of a dict, which keeps its keys in the order they were
\* first set.
DictSet(d, key, value) ==
  IF \E i \in 1..Len(d) : d[i].key = key
  THEN [i \in 1..Len(d) |-> IF d[i].key = key THEN [key |-> key, value |-> value] ELSE d[i]]
  ELSE Append(d, [key |-> key, value |-> value])

\* dict(zip(column_names, row))
RECURSIVE DictZip(_, _, _)
DictZip(d, column_names, row) ==
  IF column_names = <<>> \/ row = <<>> THEN d
  ELSE DictZip(DictSet(d, Head(column_names), Head(row)), Tail(column_names), Tail(row))

NoMapping == [done |-> FALSE, items |-> <<>>]

RmIdle == rmNames = <<>> /\ rmRow = <<>> /\ rmOut = NoMapping

RmInit ==
  /\ rmNames \in SeqsOver(ResultColumnNames, MaxResultColumns)
  /\ rmRow \in {r \in SeqsOver(ResultValues, MaxResultColumns) : Len(r) = Len(rmNames)}
  /\ rmOut = NoMapping

\* Lines 115-118, for one row.
ConvertRow ==
  /\ ~rmOut.done
  /\ rmOut' = [done |-> TRUE, items |-> DictZip(<<>>, rmNames, rmRow)]
  /\ UNCHANGED <<rmNames, rmRow>>
  /\ UNCHANGED <<appVars, fnVars, exceptRm>>

LateIdle == SchIdle /\ RtIdle /\ GdIdle /\ SsIdle /\ CIdle /\ RmIdle

AuxIdle == ScanIdle /\ TokIdle /\ CryIdle /\ IpIdle /\ PoolIdle /\ LateIdle

(***************************************************************************)
(* Specifications.                                                         *)
(***************************************************************************)
Init == AppIdle /\ FnIdle /\ AuxIdle

Next ==
  \/ ChatReceive \/ ChatSchema \/ ChatTranslate \/ ChatSanitize \/ ChatExecute
  \/ ChatSummarize \/ HealthCheck \/ GetAnalytics \/ FetchData \/ NextRequest

Spec == Init /\ [][Next]_vars

\* The deny-list scanner and sanitize_sql on the deny-list inputs.
InitDeny == AppIdle /\ FnInit(DenyTexts) /\ AuxIdle
NextDeny == ApplyDenyList \/ ApplySanitize
SpecDeny == InitDeny /\ [][NextDeny]_vars

\* The classifier and sanitize_sql on the gate inputs.
InitGate == AppIdle /\ FnInit(GateTexts) /\ AuxIdle
NextGate == ApplyClassify \/ ApplySanitize
SpecGate == InitGate /\ [][NextGate]_vars

\* The limit enforcer, applied once and twice.
InitLimit == AppIdle /\ FnInit(LimitTexts) /\ AuxIdle
NextLimit == ApplyEnsureLimit
SpecLimit == InitLimit /\ [][NextLimit]_vars

\* SecurityManager.validate_input on every input of ScanTexts.
InitScan == AppIdle /\ FnIdle /\ ScanInit /\ TokIdle /\ CryIdle /\ IpIdle /\ PoolIdle /\ LateIdle
NextScan == ApplyScan
SpecScan == InitScan /\ [][NextScan]_vars

\* Tokens issued, forged, tampered with and validated as time passes.
InitToken == AppIdle /\ FnIdle /\ AuxIdle
NextToken ==
  GenerateToken \/ ForgeToken \/ TamperToken \/ Tick \/ ValidateToken \/ DropToken
SpecToken == InitToken /\ [][NextToken]_vars

\* The instances of a process, constructed one after another, encrypting
\* and decrypting.
InitCrypto == AppIdle /\ FnIdle /\ ScanIdle /\ TokIdle /\ CryInit /\ IpIdle /\ PoolIdle /\ LateIdle
NextCrypto == ConstructManager \/ EncryptData \/ DecryptData
SpecCrypto == InitCrypto /\ [][NextCrypto]_vars

\* check_ip_whitelist on every address of Addresses.
InitIp == AppIdle /\ FnIdle /\ ScanIdle /\ TokIdle /\ CryIdle /\ IpInit /\ PoolIdle /\ LateIdle
NextIp == ApplyCheckIp
SpecIp == InitIp /\ [][NextIp]_vars

\* Threads calling the methods of one DatabaseManager at the same time.
InitPool == AppIdle /\ FnIdle /\ ScanIdle /\ TokIdle /\ CryIdle /\ IpIdle /\ PoolInit /\ LateIdle
NextPool ==
  \E t \in Threads :
    Acquire(t) \/ SetTimeout(t) \/ Execute(t) \/ Fetch(t) \/ Commit(t) \/ Release(t)
SpecPool == InitPool /\ [][NextPool]_vars

EarlyIdle ==
  AppIdle /\ FnIdle /\ ScanIdle /\ TokIdle /\ CryIdle /\ IpIdle /\ PoolIdle

\* One call of get_schema_info.
InitSchema ==
  EarlyIdle /\ SchIdle /\ RtIdle /\ GdIdle /\ SsIdle /\ CIdle /\ RmIdle
NextSchema == SchemaTables \/ SchemaColumns
SpecSchema == InitSchema /\ [][NextSchema]_vars

\* One call of _call_openai_with_retry.
InitRetry ==
  EarlyIdle /\ RtIdle /\ SchIdle /\ GdIdle /\ SsIdle /\ CIdle /\ RmIdle
NextRetry == RetryCall \/ RetryAttempt
SpecRetry == InitRetry /\ [][NextRetry]_vars

\* One request through validate_input_security.
InitGuard ==
  EarlyIdle /\ GdInit /\ SchIdle /\ RtIdle /\ SsIdle /\ CIdle /\ RmIdle
NextGuard == GuardRequest
SpecGuard == InitGuard /\ [][NextGuard]_vars

\* Tokens of the global security manager presented to require_valid_session.
InitSession ==
  EarlyIdle /\ SsInit /\ SchIdle /\ RtIdle /\ GdIdle /\ CIdle /\ RmIdle
NextSession == SessionIssue \/ SessionTick \/ SessionRequest
SpecSession == InitSession /\ [][NextSession]_vars

\* The data fetcher's cache.
InitCache ==
  EarlyIdle /\ CIdle /\ SchIdle /\ RtIdle /\ GdIdle /\ SsIdle /\ RmIdle
NextCache == CacheDataCall \/ GetCachedDataCall \/ CacheTick
SpecCache == InitCache /\ [][NextCache]_vars

\* One row of a result set converted by execute_query.
InitRows ==
  EarlyIdle /\ RmInit /\ SchIdle /\ RtIdle /\ GdIdle /\ SsIdle /\ CIdle
NextRows == ConvertRow
SpecRows == InitRows /\ [][NextRows]_vars

(***************************************************************************)
(* Properties.                                                             *)
(***************************************************************************)
\* The positions in calls of the statements chat handed to execute_query.
ChatExecutions ==
  {i \in 1..Len(calls) : calls[i].fn = "execute_query" /\ calls[i].caller = "chat"}

Translated ==
  \E i \in 1..Len(calls) : calls[i].fn = "natural_language_to_sql"

\* The candidate fails the gate: nothing came from the translator, or the
\* classifier does not say SELECT, or the deny-list scanner finds a keyword.
GateFails ==
  \/ ~candidate.ok
  \/ Classify(candidate.text) # "SELECT"
  \/ _contains_dangerous_keywords(candidate.text)

\* C1: chat hands execute_query a statement only when sanitize_sql returned
\* one for the candidate, which was then classified SELECT and held no
\* deny-listed keyword; a candidate that fails the gate is never executed and
\* its request ends with status 400.
C1_ExecuteOnlyAfterGate ==
  /\ \A i \in ChatExecutions :
       /\ ~GateFails
       /\ sanitize_sql(candidate.text).ok
       /\ calls[i].query = sanitize_sql(candidate.text).text
  /\ (Translated /\ GateFails) =>
       /\ ChatExecutions = {}
       /\ pc \in {"done", "sanitize"}
       /\ pc = "done" => status = 400

\* A candidate classified SELECT that holds a deny-listed keyword was turned
\* away with status 400.
C1_Witness ==
  /\ pc = "done" /\ status = 400 /\ candidate.ok
  /\ Classify(candidate.text) = "SELECT"
  /\ _contains_dangerous_keywords(candidate.text)
  /\ ChatExecutions = {}

\* What a SanitizedStatement is to the execution layer: a text the
\* classifier calls SELECT, without a deny-listed keyword, with a LIMIT clause.
PassedGate(q) ==
  /\ Classify(q) = "SELECT"
  /\ ~_contains_dangerous_keywords(q)
  /\ HasLimitClause(q)

FixedStatements ==
  {table_query, column_query, metrics_query, categories_query, health_query,
   cache_select_query, cache_insert_query}

\* C2 as stated: every statement any caller hands to execute_query passed
\* the classifier, the deny-list and the limit enforcer.
C2_EveryExecutedStatementSanitized ==
  \A i \in 1..Len(calls) :
    calls[i].fn = "execute_query" => PassedGate(calls[i].query)

\* C2 as amended: the statement chat hands to execute_query is the output of
\* sanitize_sql for the candidate and passes the classifier, the deny-list
\* and the limit check; every other caller hands over one of the statements
\* written in the code, as written.
C2_ChatStatementSanitized ==
  \A i \in 1..Len(calls) :
    calls[i].fn = "execute_query" =>
      IF calls[i].caller = "chat"
      THEN /\ sanitized.ok /\ calls[i].query = sanitized.text
           /\ sanitized = sanitize_sql(candidate.text)
           /\ PassedGate(calls[i].query)
      ELSE calls[i].query \in FixedStatements

\* One request handed execute_query a statement of the schema reader that
\* never passed the gate, and then the sanitized statement of the chat.
C2_Witness ==
  /\ ChatExecutions # {}
  /\ \E i \in 1..Len(calls) :
       /\ calls[i].fn = "execute_query" /\ calls[i].caller = "get_schema_info"
       /\ ~PassedGate(calls[i].query)

\* C3: a statement chat hands to execute_query is a single statement.
C3_SingleStatementExecuted ==
  \A i \in ChatExecutions : Len(Parse(calls[i].query)) = 1

\* The 24 keywords of the deny-list, as the specification groups them.
DenyListed ==
  {"INSERT", "UPDATE", "DELETE", "MERGE"} \cup {"CREATE", "ALTER", "DROP", "TRUNCATE"}
  \cup {"EXEC", "EXECUTE", "CALL"} \cup {"GRANT", "REVOKE"}
  \cup {"COMMIT", "ROLLBACK", "SAVEPOINT", "LOCK", "UNLOCK"} \cup {"SET", "RESET"}
  \cup {"SHOW", "DESCRIBE", "EXPLAIN", "ANALYZE"}

\* A deny-listed keyword is a whole word of the text, in any letter case.
HoldsDenyListedWord(t) ==
  \E i \in 1..Len(Lex(t)) :
    LET v == Lex(t)[i].val
    IN Len(v) = 1 /\ v[1].k = "word" /\ v[1].w \in DenyListed

\* C4: sanitize_sql returns None for every text holding a deny-listed keyword
\* as a whole word in any letter case, the scanner flags every such text, and
\* sanitize_sql returns a statement only if the classifier says SELECT and
\* the text holds no deny-listed word.
C4_DenyListRejects ==
  /\ (fn = "sanitize_sql" /\ HoldsDenyListedWord(fnIn)) => ~fnOut.ok
  /\ (fn = "_contains_dangerous_keywords" /\ HoldsDenyListedWord(fnIn)) =>
       fnVerdict = "DANGEROUS"
  /\ (fn = "sanitize_sql" /\ fnOut.ok) =>
       Classify(fnIn) = "SELECT" /\ ~HoldsDenyListedWord(fnIn)

\* sanitize_sql turned away a text classified SELECT for a keyword in mixed case.
C4_Witness ==
  /\ fn = "sanitize_sql" /\ ~fnOut.ok /\ Classify(fnIn) = "SELECT"
  /\ \E i \in 1..Len(fnIn) :
       /\ fnIn[i].k = "word" /\ fnIn[i].w \in DenyListed /\ fnIn[i].c = "M"
       /\ BoundaryBefore(fnIn, i) /\ BoundaryAfter(fnIn, i)

\* The first token of the text that is neither whitespace (space, tab,
\* newline) nor a comment is SELECT in some letter case.
FirstSignificantIsSelect(t) ==
  LET first == FirstToken(Lex(t), {"Whitespace", "Newline", "Comment.Single",
                                   "Comment.Multiline"})
  IN first # <<>> /\ Upper(first[1].val) = <<Wd("SELECT")>>

\* C5: the classifier says SELECT exactly when, leading whitespace (spaces,
\* tabs, newlines) and comments skipped, the first token is SELECT.
C5_ClassifierSkipsWhitespaceAndComments ==
  fn = "classify" => (fnVerdict = "SELECT" <=> FirstSignificantIsSelect(fnIn))

\* The row counts of the LIMIT clauses of a text.
LimitValues(t) ==
  {NumberOf(SubSeq(t, j, e)) :
     <<i, j, e>> \in {x \in (1..Len(t)) \X (1..Len(t)) \X (1..Len(t)) :
                        /\ LimitMatchAt(t, x[1], x[2]) /\ x[3] >= x[2]
                        /\ \A k \in x[2]..x[3] : t[k].k = "digits"
                        /\ (x[3] = Len(t) \/ t[x[3] + 1].k # "digits")}}

\* C6: a statement sanitize_sql returns has a LIMIT clause, of at most 100 rows.
C6_LimitAtMostMaximum ==
  (fn = "sanitize_sql" /\ fnOut.ok) =>
    /\ HasLimitClause(fnOut.text)
    /\ \A n \in LimitValues(fnOut.text) : n <= DefaultLimit

\* The text holds LIMIT, whitespace, a number: by its tokens.
HoldsLimitClause(t) ==
  LET toks == Lex(t)
  IN \E a \in 1..Len(toks) : \E b \in 1..Len(toks) :
       /\ Upper(toks[a].val) = <<Wd("LIMIT")>>
       /\ b > a + 1
       /\ \A k \in (a + 1)..(b - 1) : IsWhitespaceToken(toks[k])
       /\ toks[b].val[1].k = "digits"

\* C7: the limit enforcer returns a text that holds a LIMIT clause unchanged.
C7_ExistingLimitUnchanged ==
  (fn = "_ensure_limit_clause" /\ fnApplied = 1 /\ HoldsLimitClause(fnIn)) =>
    fnOut = Some(fnIn)

\* A text with a lower-case limit above 100 came back unchanged.
C7_Witness ==
  /\ fn = "_ensure_limit_clause" /\ fnApplied = 1 /\ fnOut = Some(fnIn)
  /\ \E i \in 1..Len(fnIn) : \E j \in 1..Len(fnIn) :
       /\ LimitMatchAt(fnIn, i, j) /\ fnIn[i].c = "L" /\ fnIn[j].w = "500"

\* C8: the limit enforcer applied to its own result returns that result.
C8_EnsureLimitIdempotent ==
  (fn = "_ensure_limit_clause" /\ fnApplied = 2) => fnOut = fnPrev

\* The enforcer was applied twice to a text without a LIMIT clause that ends
\* with a ; and the second result is the first.
C8_Witness ==
  /\ fn = "_ensure_limit_clause" /\ fnApplied = 2 /\ fnOut = fnPrev
  /\ ~HoldsLimitClause(fnIn) /\ fnIn # <<>> /\ fnIn[Len(fnIn)].k = "semi"
  /\ fnOut.text # fnIn

EndsWith(t, suffix) ==
  Len(t) >= Len(suffix) /\ SubSeq(t, Len(t) - Len(suffix) + 1, Len(t)) = suffix

\* C9: for a text without a LIMIT clause the result of the limit enforcer
\* ends with a space, LIMIT, a space, 100.
C9_AppendsLimit100 ==
  (fn = "_ensure_limit_clause" /\ fnApplied = 1 /\ ~HoldsLimitClause(fnIn)) =>
    EndsWith(fnOut.text, <<SP, Wd("LIMIT"), SP, Dg("100")>>)

\* The clause was appended to a text that holds the word LIMIT but no LIMIT clause.
C9_Witness ==
  /\ fn = "_ensure_limit_clause" /\ fnApplied = 1 /\ ~HoldsLimitClause(fnIn)
  /\ \E i \in 1..Len(fnIn) : fnIn[i].k = "word" /\ fnIn[i].w = "LIMIT"
  /\ EndsWith(fnOut.text, <<SP, Wd("LIMIT"), SP, Dg("100")>>)
  /\ Len(fnOut.text) = Len(fnIn) + 4

\* C10: a chat message the Input Threat Scanner (SecurityManager.validate_input)
\* marks invalid causes no call of the schema reader, the translator or
\* execute_query, and its request ends with status 400.
C10_ScannerInvalidNeverReachesLlm ==
  (pc # "idle" /\ ~security_validate_input(message, MaxInputLength).valid) =>
    /\ calls = <<>>
    /\ pc = "done" /\ status = 400

\* C11: an invalid result of SecurityManager.validate_input carries exactly
\* one warning: the step that fails first ends the scan.
C11_InvalidCarriesOneWarning ==
  (scanDone /\ ~scanOut.valid) => Len(scanOut.warnings) = 1

\* The text without the whitespace it opens and closes with.
Trimmed(t) ==
  IF \A k \in 1..Len(t) : IsSpace(t[k]) THEN <<>>
  ELSE LET first == CHOOSE i \in 1..Len(t) :
                      ~IsSpace(t[i]) /\ \A k \in 1..(i - 1) : IsSpace(t[k])
           last == CHOOSE j \in 1..Len(t) :
                     ~IsSpace(t[j]) /\ \A k \in (j + 1)..Len(t) : IsSpace(t[k])
       IN SubSeq(t, first, last)

IsMarkup(a) == a.k \in {"lt", "gt", "quote"}
NotMarkup(a) == ~IsMarkup(a)

\* C12: an accepted input has no warning and its sanitized text is the
\* trimmed input without < > " and '; a rejected input's sanitized text is
\* the trimmed input.
C12_SanitizedText ==
  scanDone =>
    IF scanOut.valid
    THEN /\ scanOut.warnings = <<>>
         /\ scanOut.sanitized = SelectSeq(Trimmed(scanIn), NotMarkup)
         /\ \A i \in 1..Len(scanOut.sanitized) : ~IsMarkup(scanOut.sanitized[i])
    ELSE scanOut.sanitized = Trimmed(scanIn)

\* An accepted input that opens with a space and holds a < or a quote lost both.
C12_Witness ==
  /\ scanDone /\ scanOut.valid
  /\ scanIn # <<>> /\ IsSpace(scanIn[1])
  /\ \E i \in 1..Len(scanIn) : IsMarkup(scanIn[i])
  /\ Len(scanOut.sanitized) = Len(scanIn) - 2

\* The token is one the manager signed and nobody changed since.
TokenAsIssued ==
  /\ [user |-> tokToken.user, exp |-> tokToken.exp] \in tokIssued
  /\ tokToken.alg = "HS256" /\ tokToken.mac.key = "jwt_secret"
  /\ tokToken.mac.user = tokToken.user /\ tokToken.mac.exp = tokToken.exp

\* C13: validate_session_token returns a payload only for a token the
\* manager signed whose exp is not in the past; for a signed token whose exp
\* is in the past, and for a token whose payload, header or signature is not
\* what the manager signed, it returns None.
C13_TokenValidity ==
  tokResult.out # "-" =>
    /\ tokResult.out = "payload" => (TokenAsIssued /\ tokToken.exp >= tokResult.at)
    /\ (TokenAsIssued /\ tokToken.exp < tokResult.at) => tokResult.out = "None"
    /\ ~TokenAsIssued => tokResult.out = "None"

\* A token the manager signed was refused once its exp had passed, and a
\* payload was never given for a changed one.
C13_Witness ==
  /\ tokResult.out = "None" /\ TokenAsIssued /\ tokToken.exp < tokResult.at

C15_SingleKeyPerProcess ==
  /\ \A i \in 1..Len(cryKeys) : \A j \in 1..Len(cryKeys) : cryKeys[i] = cryKeys[j]
  /\ cryLast.n # 0 => (cryLast.out.ok /\ cryLast.out.v = cryBox[cryLast.n].of)

\* The string is an IPv4 address in dotted decimal.
WellFormedV4(a) == a.form = "v4" /\ \A i \in 1..4 : a.octets[i] \in 0..255

\* The address lies in 127.0.0.0/8, 10.0.0.0/8, 172.16.0.0/12 or 192.168.0.0/16.
InConfiguredRanges(o) ==
  \/ o[1] = 127
  \/ o[1] = 10
  \/ o[1] = 172 /\ o[2] \in 16..31
  \/ o[1] = 192 /\ o[2] = 168

\* C16: check_ip_whitelist returns True exactly for an address string that
\* parses and lies in one of the four configured ranges; it returns False for
\* every other string, and raises for none.
C16_IpWhitelist ==
  ipOut # "-" =>
    /\ ipOut \in {"True", "False"}
    /\ ipOut = "True" <=> (WellFormedV4(ipIn) /\ InConfiguredRanges(ipIn.octets))
    /\ (~WellFormedV4(ipIn) /\ ipIn.form # "v6_mapped") => ipOut = "False"

\* A string that is no address, though its numbers would lie in a configured
\* range, was turned away.
C16_Witness ==
  /\ ipOut = "False" /\ ~WellFormedV4(ipIn) /\ ipIn.form # "v6_mapped"
  /\ InConfiguredRanges(ipIn.octets)

\* Threads inside a call of a DatabaseManager method, and threads whose
\* call has returned.
InCall(t) == th[t].pc # "idle"
Returned(t) == th[t].pc = "idle" /\ th[t].method # "-"

\* C17: a pooled connection is never leaked: whichever way the body of
\* get_connection ends, the connection obtained by getconn is given back
\* with putconn exactly once, and the connections checked out are exactly
\* those of the calls still running, so none is checked out once every
\* call of execute_query, execute_update and get_sample_data has returned.
C17_ConnectionNeverLeaked ==
  /\ \A t \in Threads :
       Returned(t) => /\ th[t].conn = 0
                      /\ th[t].puts = IF th[t].got THEN 1 ELSE 0
  /\ \A t \in Threads : InCall(t) => th[t].puts = 0 /\ th[t].conn \in poolUsed
  /\ Cardinality(poolUsed) = Cardinality({t \in Threads : InCall(t)})
  /\ (\A t \in Threads : ~InCall(t)) => poolUsed = {}

\* Every call has returned, one after an exception in the body and one
\* normally, each having held a connection.
C17_Witness ==
  /\ \A t \in Threads : Returned(t)
  /\ \E t \in Threads : th[t].got /\ th[t].failed /\ th[t].puts = 1
  /\ \E t \in Threads : th[t].got /\ ~th[t].failed /\ th[t].puts = 1
  /\ poolUsed = {}

\* C18: under any interleaving of the threads no connection is held by two
\* calls at the same time, and the number of connections checked out never
\* exceeds max_connections.
C18_NoSharingWithinMaximum ==
  /\ \A t, u \in Threads : (t # u /\ th[t].conn # 0) => th[t].conn # th[u].conn
  /\ \A i \in 1..Len(poolIdle) : poolIdle[i] \notin poolUsed
  /\ Cardinality(poolUsed) <= MaxConnections
  /\ Cardinality({t \in Threads : th[t].conn # 0}) <= MaxConnections

\* Every connection is checked out while another thread's call has
\* returned without having obtained one.
C18_Witness ==
  /\ Cardinality(poolUsed) = MaxConnections
  /\ Cardinality({th[t].conn : t \in {u \in Threads : InCall(u)}}) = MaxConnections
  /\ \E t \in Threads : Returned(t) /\ ~th[t].got /\ th[t].failed

\* C19: on every acquisition the statement timeout is set before any other
\* statement is run, whichever method acquired the connection.
C19_TimeoutSetFirst ==
  \A t \in Threads : th[t].log # <<>> => th[t].log[1] = "SET"

\* C20: execute_query never raises: it returns None after any error (no
\* connection, a failed SET, a statement without a result set, ...) and the
\* rows, an empty list when there are none, otherwise.
C20_ExecuteQueryNeverRaises ==
  \A t \in Threads :
    (Returned(t) /\ th[t].method = "execute_query") =>
      /\ th[t].result.kind \in {"None", "rows"}
      /\ th[t].failed <=> th[t].result = [kind |-> "None", n |-> 0]
      /\ ~th[t].failed <=> th[t].result = [kind |-> "rows", n |-> th[t].rows]

\* One call of execute_query has returned None for want of a connection
\* while another has returned an empty list.
C20_Witness ==
  \E t, u \in Threads :
    /\ Returned(t) /\ th[t].method = "execute_query"
    /\ ~th[t].got /\ th[t].result.kind = "None"
    /\ Returned(u) /\ th[u].method = "execute_query"
    /\ ~th[u].failed /\ th[u].result = [kind |-> "rows", n |-> 0]

\* The request that has ended was a chat request, and the calls chat made.
ChatDone ==
  /\ pc = "done"
  /\ \A i \in 1..Len(calls) : calls[i].caller \in {"chat", "get_schema_info"}
ChatMade(f) == \E i \in 1..Len(calls) : calls[i].caller = "chat" /\ calls[i].fn = f

C22_ExhaustionBlocks ==
  \A t \in Threads : ~(Returned(t) /\ th[t].exhausted)

\* Every deny-listed keyword in t is a proper part of a longer identifier:
\* a letter, a digit or an underscore stands directly before or after it.
OnlyInsideIdentifiers(t) ==
  /\ \E i \in 1..Len(t) : t[i].k = "word" /\ t[i].w \in dangerous_keywords
  /\ \A i \in 1..Len(t) :
       (t[i].k = "word" /\ t[i].w \in dangerous_keywords) =>
         \/ i > 1 /\ t[i - 1].k \in {"word", "digits", "us"}
         \/ i < Len(t) /\ t[i + 1].k \in {"word", "digits", "us"}

\* C23: the deny-list scanner matches whole words only: a text in which a
\* deny-listed keyword occurs only as a proper part of a longer identifier
\* is not flagged, in any letter case.
C23_WholeWordsOnly ==
  (fn = "_contains_dangerous_keywords" /\ OnlyInsideIdentifiers(fnIn)) =>
    fnVerdict = "CLEAR"

\* The scanner let pass a keyword in mixed case followed by an underscore.
C23_Witness ==
  /\ fn = "_contains_dangerous_keywords" /\ fnVerdict = "CLEAR"
  /\ \E i \in 1..(Len(fnIn) - 1) :
       /\ fnIn[i].k = "word" /\ fnIn[i].w \in dangerous_keywords /\ fnIn[i].c = "M"
       /\ fnIn[i + 1].k = "us"

\* The text ends with a statement terminator, alone or repeated, with or
\* without whitespace after it.
EndsWithTerminator(t) ==
  RStripSpace(t) # <<>> /\ RStripSpace(t)[Len(RStripSpace(t))].k = "semi"

\* C24: for a text without a LIMIT clause that ends with a terminator (alone,
\* repeated, or followed by whitespace), the limit enforcer removes the
\* terminator before it appends: no ; stands between the statement and the
\* appended LIMIT 100.
C24_TerminatorRemoved ==
  (/\ fn = "_ensure_limit_clause" /\ fnApplied = 1
   /\ ~HoldsLimitClause(fnIn) /\ EndsWithTerminator(fnIn)) =>
    /\ EndsWith(fnOut.text, <<SP, Wd("LIMIT"), SP, Dg("100")>>)
    /\ ~EndsWithTerminator(SubSeq(fnOut.text, 1, Len(fnOut.text) - 4))

\* The rows of the table query of the given kind, and the last row with
\* the name n among them.
IsBase(r) == r.table_type = "BASE TABLE"
LastRow(base, n) ==
  CHOOSE i \in 1..Len(schRows.rows) :
    /\ schRows.rows[i].table_name = n /\ IsBase(schRows.rows[i]) = base
    /\ \A j \in (i + 1)..Len(schRows.rows) :
         ~(schRows.rows[j].table_name = n /\ IsBase(schRows.rows[j]) = base)

\* The entry of a snapshot dictionary is that of row i and its column query.
EntryOf(entry, i) ==
  /\ entry.type = schRows.rows[i].table_type
  /\ entry.schema = schRows.rows[i].table_schema
  /\ entry.columns = (IF schCols[i].ok THEN schCols[i].n ELSE 0)

\* C25: get_schema_info runs the table query once and then one column query
\* for each row it returned; each row is placed under tables when its type
\* is BASE TABLE and under views otherwise; total_tables is the number of
\* entries of tables; without rows (None or an empty list) no column query
\* is run and the empty snapshot is returned; a table whose column query
\* failed is included with an empty column list.
C25_SchemaSnapshot ==
  /\ schCalls # <<>> =>
       /\ schCalls[1].query = table_query
       /\ \A i \in 2..Len(schCalls) : schCalls[i].query = column_query
       /\ Len(schCalls) = 1 + Len(schCols)
  /\ schPc = "done" =>
       /\ Len(schCalls) = 1 + Len(schRows.rows)
       /\ (~schRows.ok \/ schRows.rows = <<>>) =>
            Len(schCalls) = 1 /\ schInfo = EmptySnapshot
       /\ DOMAIN schInfo.tables =
            {schRows.rows[i].table_name :
               i \in {j \in 1..Len(schRows.rows) : IsBase(schRows.rows[j])}}
       /\ DOMAIN schInfo.views =
            {schRows.rows[i].table_name :
               i \in {j \in 1..Len(schRows.rows) : ~IsBase(schRows.rows[j])}}
       /\ \A n \in DOMAIN schInfo.tables : EntryOf(schInfo.tables[n], LastRow(TRUE, n))
       /\ \A n \in DOMAIN schInfo.views : EntryOf(schInfo.views[n], LastRow(FALSE, n))
       /\ schInfo.total_tables = Cardinality(DOMAIN schInfo.tables)

\* A call has returned a snapshot with a view and with a table whose column
\* query failed.
C25_Witness ==
  /\ schPc = "done" /\ Len(schCalls) = 3
  /\ \E i \in 1..Len(schRows.rows) :
       /\ IsBase(schRows.rows[i]) /\ ~schCols[i].ok
       /\ schRows.rows[i].table_name \in DOMAIN schInfo.tables
       /\ schInfo.tables[schRows.rows[i].table_name].columns = 0
  /\ DOMAIN schInfo.views # {}
  /\ schInfo.total_tables = 1

\* The calls of the model that raised, by attempt.
Raised3(k) == k + 1 <= Len(rtLog) /\ rtLog[k + 1].kind = "raise"

\* C26: _call_openai_with_retry ends after at most max_retries calls of the
\* model; it returns the content of the first call with a choice and calls
\* no more; it returns None only after max_retries calls that raised or
\* had no choice; after attempt k raised it sleeps retry_delay * 2^k
\* seconds, except after the last attempt.
C26_RetryTerminates ==
  /\ Len(rtLog) <= max_retries
  /\ \A i \in 1..(Len(rtLog) - 1) : rtLog[i].kind # "choice"
  /\ (rtPc = "done" /\ rtLog[Len(rtLog)].kind = "choice") =>
       rtOut = rtLog[Len(rtLog)].content
  /\ (rtPc = "done" /\ ~rtOut.ok) =>
       /\ Len(rtLog) = max_retries
       /\ \A i \in 1..Len(rtLog) : rtLog[i].kind \in {"raise", "nochoice"}
  /\ rtPc = "loop" => Len(rtLog) < max_retries
  /\ {rtSleeps[i] : i \in 1..Len(rtSleeps)} =
       {[attempt |-> k, secs |-> retry_delay * Pow2(k)] :
          k \in {a \in 0..(max_retries - 2) : Raised3(a)}}
  /\ \A i \in 1..(Len(rtSleeps) - 1) : rtSleeps[i].attempt < rtSleeps[i + 1].attempt

\* The strings of the body, at any depth, that the scanner refuses.
RefusedStrings(body) ==
  {i \in 1..Len(body.values) :
     /\ body.values[i].kind \in {"string", "object", "array"}
     /\ ~security_validate_input(body.values[i].text, MaxInputLength).valid}

\* C27: the handler behind validate_input_security is invoked only when
\* every string of the JSON body, at any position and depth, passes the
\* scanner; if one fails the guard answers 400 with the warnings, logs an
\* invalid_input event and does not invoke the handler.
C27_GuardScansEveryString ==
  gdOut.done =>
    /\ gdOut.invoked => RefusedStrings(gdBody) = {}
    /\ RefusedStrings(gdBody) # {} =>
         /\ gdOut.status = 400 /\ ~gdOut.invoked
         /\ gdOut.warnings # <<>>
         /\ Len(gdOut.events) = 1 /\ gdOut.events[1].event_type = "invalid_input"

\* C28: a token the process's security manager issued for u, presented
\* before its expiry as a Bearer token, is accepted by require_valid_session
\* and the handler runs with request.user_id = u, whether or not
\* JWT_SECRET_KEY is set.
C28_IssuedTokenAccepted ==
  (ssOut.header = "Bearer" /\ ssOut.at < ssToken.exp) =>
    ssOut.status = 200 /\ ssOut.user_id = ssToken.user

\* C29: after _cache_data(source_type, url, d), _get_cached_data for the
\* same source type and url returns d within the cache duration of the
\* source type, and None once the duration has passed.
C29_CacheHitWithinDuration ==
  (cGet # NoGet /\ cPut # NoPut /\ cGet.key = cPut.key) =>
    /\ cGet.at - cPut.at < cache_duration[cGet.key[1]] =>
         cGet.result.ok /\ cGet.result.d.v = cPut.d.v
    /\ cGet.at - cPut.at > cache_duration[cGet.key[1]] => ~cGet.result.ok

\* C30: a row mapping returned by execute_query has exactly one entry for
\* each column of the result set, in the order of the columns, so that no
\* value is lost, also when two columns have the same name.
C30_OneEntryPerColumn ==
  rmOut.done =>
    /\ Len(rmOut.items) = Len(rmNames)
    /\ \A i \in 1..Len(rmNames) :
         rmOut.items[i] = [key |-> rmNames[i], value |-> rmRow[i]]

====
